---- MODULE Spec2Model ----
(***************************************************************************)
(* Natural-language-to-SQL service: the SQL safety validators, the SQL     *)
(* generation orchestrator (SQLGenerator) and the HTTP request handlers.   *)
(* SQL text is modelled as TLA+ strings and inspected character by         *)
(* character, as the JavaScript string and RegExp operations do.           *)
(***************************************************************************)
EXTENDS Integers, Sequences, FiniteSets, TLC

VARIABLES
  tPhase,      \* validator run: "build", "checked", "recleaned", "fenced"
  tInput,      \* the candidate text handed to the validators (a JS value)
  tParts,      \* number of fragments appended to the candidate text
  tSafe,       \* result of isSafeSelect(tInput)
  tStrict,     \* result of SQLGenerator.validateSqlSafety(tInput)
  tClean,      \* result of validateAndCleanSql(tInput)
  tClean2,     \* result of validateAndCleanSql applied to tClean
  tCleanSafe,  \* result of isSafeSelect applied to tClean
  tStyle,      \* the code-fence wrapper put around tClean
  tFenced      \* result of validateAndCleanSql on the wrapped tClean

textVars ==
  <<tPhase, tInput, tParts, tSafe, tStrict, tClean, tClean2, tCleanSafe,
    tStyle, tFenced>>

VARIABLES
  hRoute,      \* endpoint of the request in flight, "none" before it arrives
  hPc,         \* position of its handler
  hPrompt,     \* the prompt of a /query request (a JS value)
  hBody,       \* the fields of the body of the other requests
  hSqlQuery,   \* /query: the statement generateSqlFromPrompt returned
  hSafeArg,    \* /query: the text isSafeSelect was called with
  hSafe,       \* /query: "none" before the safety check, then "true" or "false"
  hCalls,      \* external calls made for the request, in order
  hStatus,     \* HTTP status of the response, 0 while none was sent
  hError,      \* the error text of the response
  hSqlOut,     \* the sql field of the response
  hRows,       \* the rows field of the response
  hViz,        \* the visualization field of the response
  hItems,      \* /analyze-batch: number of items of the requests array
  hIndex,      \* /analyze-batch: index of the item being processed
  hResults,    \* /analyze-batch: the result entries pushed so far
  hSummary,    \* /analyze-batch: total, completed and failed of the response
  apiKeySet    \* whether GROQ_API_KEY is set in the process environment

httpVars ==
  <<hRoute, hPc, hPrompt, hBody, hSqlQuery, hSafeArg, hSafe, hCalls, hStatus, hError,
    hSqlOut, hRows, hViz, hItems, hIndex, hResults, hSummary, apiKeySet>>

VARIABLES
  gDb,         \* SQLGenerator.dbConfig is set
  gRedis,      \* SQLGenerator._redis is set
  gSchema,     \* SQLGenerator._schema, the in-memory snapshot
  gFetchedAt,  \* SQLGenerator._schemaFetchedAt, -1 for null
  gBorn,       \* when the content of _schema was read from the database
  now,         \* the clock, in seconds
  redisVal,    \* what the external cache holds under the schema key, when
               \* its content was read from the database and when it expires
  dbSchema,    \* index of the schema the database has at present
  gPool,       \* a connection pool opened by refreshSchemaFromDb is open
  gCalls,      \* number of generateSqlFromPrompt calls started
  gPc,         \* position of the generateSqlFromPrompt call in progress
  gSite,       \* 1: the lookup of step 2, 2: the lookup of the schema check
  gEnforce,    \* opts.enforceSchemaCheck of the call
  gLocal,      \* the local variable schema of refreshSchemaFromDb
  gLlm,        \* "none", "threw" or "returned": how the llmClient call ended
  gContent,    \* choices[0].message.content of the llmClient response
  gSqlText,    \* the local variable sqlText
  gResult      \* how the call settled: resolved with a statement, or rejected

genVars ==
  <<gDb, gRedis, gSchema, gFetchedAt, gBorn, now, redisVal, dbSchema, gPool,
    gCalls, gPc, gSite, gEnforce, gLocal, gLlm, gContent, gSqlText, gResult>>

VARIABLES
  pPhase,      \* prompt analysis: "idle", "typing" or "analyzed"
  pPrompt,     \* the prompt text handed to analyzeUserPrompt
  pParts,      \* number of phrases appended to the prompt
  pAnalysis    \* the object analyzeUserPrompt returned

promptVars == <<pPhase, pPrompt, pParts, pAnalysis>>

VARIABLES
  cPc,         \* per concurrent caller: position in _getCachedSchema or
               \* refreshSchemaFromDb
  cLocal,      \* per caller: the local variable schema (or parsed), and when
               \* its content was read from the database
  cPool,       \* per caller: the local variable pool is an open pool
  cGot,        \* per caller: how its call ended and what it returned
  cWriter      \* the caller that assigned this._schema last, 0 for none

cacheVars == <<cPc, cLocal, cPool, cGot, cWriter>>

vars == <<textVars, httpVars, genVars, promptVars, cacheVars>>

\* What the actions of each part of the model leave alone.
nonHttpVars == <<textVars, genVars, promptVars, cacheVars>>
nonTextVars == <<httpVars, genVars, promptVars, cacheVars>>
nonGenVars == <<textVars, httpVars, promptVars, cacheVars>>
nonPromptVars == <<textVars, httpVars, genVars, cacheVars>>
nonCacheVars == <<textVars, httpVars, promptVars>>

(***************************************************************************)
(* JavaScript string primitives                                            *)
(***************************************************************************)
UpperAlpha == "ABCDEFGHIJKLMNOPQRSTUVWXYZ"
LowerAlpha == "abcdefghijklmnopqrstuvwxyz"
DigitChars == "0123456789"

CharAt(s, i) == SubSeq(s, i, i)

InStr(c, chars) == \E i \in 1..Len(chars) : CharAt(chars, i) = c

IndexIn(c, chars) == CHOOSE i \in 1..Len(chars) : CharAt(chars, i) = c

\* The letters as a set, and the case maps as functions on them.
UpperChars == {CharAt(UpperAlpha, i) : i \in 1..Len(UpperAlpha)}
LowerChars == {CharAt(LowerAlpha, i) : i \in 1..Len(LowerAlpha)}
LowerOf == [c \in UpperChars |-> CharAt(LowerAlpha, IndexIn(c, UpperAlpha))]
UpperOf == [c \in LowerChars |-> CharAt(UpperAlpha, IndexIn(c, LowerAlpha))]

toLowerChar(c) == IF c \in UpperChars THEN LowerOf[c] ELSE c

toUpperChar(c) == IF c \in LowerChars THEN UpperOf[c] ELSE c

RECURSIVE toLowerCase(_)
toLowerCase(s) ==
  IF s = "" THEN "" ELSE toLowerChar(CharAt(s, 1)) \o toLowerCase(Tail(s))

RECURSIVE toUpperCase(_)
toUpperCase(s) ==
  IF s = "" THEN "" ELSE toUpperChar(CharAt(s, 1)) \o toUpperCase(Tail(s))

\* White space as String.prototype.trim and the RegExp class \s see it.
IsSpace(c) == c \in {" ", "\t", "\n", "\r"}

\* The RegExp class \w.
WordChars ==
  UpperChars \cup LowerChars \cup {CharAt(DigitChars, i) : i \in 1..Len(DigitChars)} \cup {"_"}

IsWordChar(c) == c \in WordChars

RECURSIVE trimStart(_)
trimStart(s) ==
  IF s # "" /\ IsSpace(CharAt(s, 1)) THEN trimStart(Tail(s)) ELSE s

RECURSIVE trimEnd(_)
trimEnd(s) ==
  IF s # "" /\ IsSpace(CharAt(s, Len(s)))
  THEN trimEnd(SubSeq(s, 1, Len(s) - 1)) ELSE s

trim(s) == trimEnd(trimStart(s))

startsWith(s, p) == Len(s) >= Len(p) /\ SubSeq(s, 1, Len(p)) = p

endsWith(s, p) == Len(s) >= Len(p) /\ SubSeq(s, Len(s) - Len(p) + 1, Len(s)) = p

includes(s, p) ==
  \E i \in 1..(Len(s) - Len(p) + 1) : SubSeq(s, i, i + Len(p) - 1) = p

\* (s.match(/c/g) || []).length
countChar(s, c) == Cardinality({i \in 1..Len(s) : CharAt(s, i) = c})

\* new RegExp('\\bW\\b', 'i').test(s), for a word W of \w characters.
testWord(s, w) ==
  \E i \in 1..(Len(s) - Len(w) + 1) :
    /\ toLowerCase(SubSeq(s, i, i + Len(w) - 1)) = toLowerCase(w)
    /\ (i = 1 \/ ~IsWordChar(CharAt(s, i - 1)))
    /\ (i + Len(w) - 1 = Len(s) \/ ~IsWordChar(CharAt(s, i + Len(w))))

\* /\bW/i.test(s): a word boundary before W only.
testWordStart(s, w) ==
  \E i \in 1..(Len(s) - Len(w) + 1) :
    /\ toLowerCase(SubSeq(s, i, i + Len(w) - 1)) = toLowerCase(w)
    /\ (i = 1 \/ ~IsWordChar(CharAt(s, i - 1)))

\* /^W\b/i.test(s)
testPrefixWord(s, w) ==
  /\ Len(s) >= Len(w)
  /\ toLowerCase(SubSeq(s, 1, Len(w))) = toLowerCase(w)
  /\ (Len(s) = Len(w) \/ ~IsWordChar(CharAt(s, Len(w) + 1)))

(***************************************************************************)
(* JavaScript values that may be absent: undefined, null or a string.      *)
(***************************************************************************)
Undefined == [t |-> "undefined", v |-> ""]
Null == [t |-> "null", v |-> ""]
Str(s) == [t |-> "string", v |-> s]

\* !x
Falsy(x) == x.t # "string" \/ x.v = ""

\* x?.trim()
OptTrim(x) == IF x.t = "string" THEN Str(trim(x.v)) ELSE Undefined

\* (x || '').trim()
OrEmptyTrim(x) == IF Falsy(x) THEN "" ELSE trim(x.v)

(***************************************************************************)
(* The SQL safety validators                                               *)
(***************************************************************************)
FallbackSql == "SELECT TOP (0) * FROM SalesReport_Form_Input"

ForbiddenWithSpace ==
  {"insert ", "update ", "delete ", "drop ", "alter ",
   "create ", "truncate ", "exec ", "merge ", "grant ", "revoke "}

\* isSafeSelect without the test that a single semicolon ends the text.
isSafeSelect_anySemicolon(sqlText) ==
  LET lowered == toLowerCase(trim(sqlText.v))
      semicolonCount == countChar(lowered, ";")
  IN  IF Falsy(sqlText) THEN FALSE
      ELSE IF semicolonCount > 1 THEN FALSE
      ELSE IF ~(startsWith(lowered, "select") \/ startsWith(lowered, "with"))
      THEN FALSE
      ELSE \A kw \in ForbiddenWithSpace : ~includes(lowered, kw)

isSafeSelect(sqlText) ==
  LET lowered == toLowerCase(trim(sqlText.v))
      semicolonCount == countChar(lowered, ";")
  IN  IF Falsy(sqlText) THEN FALSE
      ELSE IF semicolonCount > 1 \/ (semicolonCount = 1 /\ ~endsWith(lowered, ";"))
      THEN FALSE
      ELSE IF ~(startsWith(lowered, "select") \/ startsWith(lowered, "with"))
      THEN FALSE
      ELSE \A kw \in ForbiddenWithSpace : ~includes(lowered, kw)

\* The longest run of \w characters at the start of s.
RECURSIVE skipWord(_)
skipWord(s) ==
  IF s # "" /\ IsWordChar(CharAt(s, 1)) THEN skipWord(Tail(s)) ELSE s

skipNewline(s) == IF startsWith(s, "\n") THEN Tail(s) ELSE s

\* The backquote character cannot be written in a TLA+ string; the caret,
\* which occurs in no text of the model, stands for it.
Backtick == "^"

\* The markdown code-fence marker: three backquotes.
Fence == Backtick \o Backtick \o Backtick

\* The replace without its g flag: only the first fence is removed.
RECURSIVE stripFences_firstOnly(_)
stripFences_firstOnly(s) ==
  IF s = "" THEN ""
  ELSE IF startsWith(s, Fence)
       THEN skipNewline(skipWord(SubSeq(s, 4, Len(s))))
       ELSE CharAt(s, 1) \o stripFences_firstOnly(Tail(s))

\* sql.replace(/<fence>[\w]*\n?/g, '')
RECURSIVE stripFences(_)
stripFences(s) ==
  IF s = "" THEN ""
  ELSE IF startsWith(s, Fence)
       THEN stripFences(skipNewline(skipWord(SubSeq(s, 4, Len(s)))))
       ELSE CharAt(s, 1) \o stripFences(Tail(s))

\* The keyword list without DROP.
DangerousKeywords_noDrop ==
  {"DELETE", "UPDATE", "INSERT", "ALTER", "CREATE", "TRUNCATE"}

DangerousKeywords ==
  {"DROP", "DELETE", "UPDATE", "INSERT", "ALTER", "CREATE", "TRUNCATE"}

validateAndCleanSql(sql) ==
  IF Falsy(sql) THEN FallbackSql
  ELSE LET cleaned == trim(stripFences(sql.v))
           upper == toUpperCase(cleaned)
       IN  IF ~startsWith(upper, "SELECT") /\ ~startsWith(upper, "WITH")
           THEN FallbackSql
           ELSE IF \E keyword \in DangerousKeywords :
                      includes(upper, " " \o keyword \o " ")
                THEN FallbackSql
                ELSE cleaned

MaxSqlLength == 20000

StrictForbiddenWords ==
  {"INSERT", "UPDATE", "DELETE", "DROP", "ALTER",
   "CREATE", "TRUNCATE", "EXEC", "EXECUTE"}

validateSqlSafety(sqlText) ==
  LET s == trim(sqlText.v)
  IN  IF Falsy(sqlText) THEN FALSE
      ELSE IF ~(testPrefixWord(s, "SELECT") \/ testPrefixWord(s, "WITH")) THEN FALSE
      ELSE IF \E w \in StrictForbiddenWords : testWord(s, w) THEN FALSE
      ELSE IF includes(s, "--") \/ includes(s, ";--") THEN FALSE
      ELSE IF testWord(s, "xp_cmdshell") \/ testWordStart(s, "sp_") THEN FALSE
      ELSE IF Len(s) > MaxSqlLength THEN FALSE
      ELSE TRUE

RECURSIVE dropSemicolons(_)
dropSemicolons(s) ==
  IF endsWith(s, ";") THEN dropSemicolons(SubSeq(s, 1, Len(s) - 1)) ELSE s

\* sqlText.replace(/\s*;+\s*$/g, ''): the last run of semicolons, with the
\* white space around it, when nothing but white space follows it.
trimTrailingSemicolons(s) ==
  IF endsWith(trimEnd(s), ";") THEN trimEnd(dropSemicolons(trimEnd(s))) ELSE s

(***************************************************************************)
(* Chart selection of the /query handler                                   *)
(***************************************************************************)
\* /\b(A\s*B)\b/i.test(s) for words A and B of \w characters.
testPhrase(s, a, b) ==
  \E i \in 1..Len(s), j \in 1..Len(s) :
    /\ j >= i + Len(a) /\ j + Len(b) - 1 <= Len(s)
    /\ toLowerCase(SubSeq(s, i, i + Len(a) - 1)) = a
    /\ toLowerCase(SubSeq(s, j, j + Len(b) - 1)) = b
    /\ \A k \in (i + Len(a))..(j - 1) : IsSpace(CharAt(s, k))
    /\ (i = 1 \/ ~IsWordChar(CharAt(s, i - 1)))
    /\ (j + Len(b) - 1 = Len(s) \/ ~IsWordChar(CharAt(s, j + Len(b))))

\* The types of the chartPatterns list, in the order of the list.
chartTypes == <<"bar", "line", "pie", "table">>

\* pattern.test(prompt) for the pattern of one chart type.
chartPatternTest(type, prompt) ==
  CASE type = "bar" ->
         testPhrase(prompt, "bar", "chart") \/ testPhrase(prompt, "bar", "graph")
    [] type = "line" ->
         testPhrase(prompt, "line", "chart") \/ testPhrase(prompt, "line", "graph")
    [] type = "pie" ->
         testPhrase(prompt, "pie", "chart") \/ testPhrase(prompt, "pie", "graph")
    [] OTHER ->
         \/ testWord(prompt, "table") \/ testWord(prompt, "tabular")
         \/ testPhrase(prompt, "data", "table")

\* A chartPatterns loop without its break: the last matching pattern wins.
explicitChartType_lastMatch(prompt) ==
  IF chartPatternTest("table", prompt) THEN "table"
  ELSE IF chartPatternTest("pie", prompt) THEN "pie"
  ELSE IF chartPatternTest("line", prompt) THEN "line"
  ELSE IF chartPatternTest("bar", prompt) THEN "bar"
  ELSE ""

\* The chartPatterns list: the type of the first pattern matching the prompt,
\* '' when none matches.
explicitChartType(prompt) ==
  IF testPhrase(prompt, "bar", "chart") \/ testPhrase(prompt, "bar", "graph")
  THEN "bar"
  ELSE IF testPhrase(prompt, "line", "chart") \/ testPhrase(prompt, "line", "graph")
  THEN "line"
  ELSE IF testPhrase(prompt, "pie", "chart") \/ testPhrase(prompt, "pie", "graph")
  THEN "pie"
  ELSE IF testWord(prompt, "table") \/ testWord(prompt, "tabular")
          \/ testPhrase(prompt, "data", "table")
  THEN "table"
  ELSE ""

IsDigit(c) == InStr(c, DigitChars)

AllDigits(s) == Len(s) > 0 /\ \A i \in 1..Len(s) : IsDigit(CharAt(s, i))

\* /^\d+(\.\d+)?$/.test(s)
isNumericString(s) ==
  \/ AllDigits(s)
  \/ \E k \in 2..(Len(s) - 1) :
       /\ CharAt(s, k) = "."
       /\ AllDigits(SubSeq(s, 1, k - 1))
       /\ AllDigits(SubSeq(s, k + 1, Len(s)))

\* A cell of a result row: its JS type and the text String(value) gives.
Cell(type, text) == [t |-> type, v |-> text]

\* /date|month|year|time/i.test(c)
isDateColumn(c) ==
  \E w \in {"date", "month", "year", "time"} : includes(toLowerCase(c), w)

isNumericCell(cell) == cell.t = "number" \/ isNumericString(cell.v)

\* A heuristic that looks for numeric values in every row of the result.
chooseVisualization_anyRow(prompt, recordset) ==
  LET chartType == explicitChartType(prompt)
      row == recordset[1]
      cols == 1..Len(row)
      hasDate == \E c \in cols : isDateColumn(row[c].name)
      numericCols ==
        {c \in cols : \E r \in DOMAIN recordset : isNumericCell(recordset[r][c].value)}
  IN  IF Len(recordset) > 0 /\ chartType = ""
      THEN IF hasDate /\ Cardinality(numericCols) >= 1 THEN "line"
           ELSE IF Cardinality(numericCols) >= 1 /\ Len(row) <= 3 THEN "bar"
           ELSE "table"
      ELSE chartType

\* The visualization of the response: the explicit chart type, or the
\* heuristic on the first row when there is none and the result has rows.
chooseVisualization(prompt, recordset) ==
  LET chartType == explicitChartType(prompt)
      row == recordset[1]
      cols == 1..Len(row)
      hasDate == \E c \in cols : isDateColumn(row[c].name)
      numericCols == {c \in cols : isNumericCell(row[c].value)}
  IN  IF Len(recordset) > 0 /\ chartType = ""
      THEN IF hasDate /\ Cardinality(numericCols) >= 1 THEN "line"
           ELSE IF Cardinality(numericCols) >= 1 /\ Len(row) <= 3 THEN "bar"
           ELSE "table"
      ELSE chartType

(***************************************************************************)
(* Regular expressions of the prompt analysis.  A text is matched as the   *)
(* sequence of its characters, lowercased (every pattern with letters      *)
(* carries the i flag); a pattern is a sequence of elements, matched with  *)
(* the leftmost start, greedy quantifiers and ordered alternatives of the  *)
(* JavaScript RegExp.                                                      *)
(***************************************************************************)
RECURSIVE chars(_)
chars(s) == IF s = "" THEN << >> ELSE <<CharAt(s, 1)>> \o chars(Tail(s))

RECURSIVE lowerChars(_)
lowerChars(s) ==
  IF s = "" THEN << >> ELSE <<toLowerChar(CharAt(s, 1))>> \o lowerChars(Tail(s))

RECURSIVE charsOfAll(_)
charsOfAll(ws) ==
  IF ws = << >> THEN << >> ELSE <<chars(Head(ws))>> \o charsOfAll(Tail(ws))

DigitSet == {CharAt(DigitChars, i) : i \in 1..Len(DigitChars)}

Lit(w) == [k |-> "lit", w |-> chars(w)]                  \* the text w
Sp == [k |-> "sp"]                                       \* \s+
Digits(lo, hi) == [k |-> "digits", lo |-> lo, hi |-> hi] \* \d{lo,hi}
Alt(ws) == [k |-> "alt", ws |-> charsOfAll(ws)]          \* (w1|w2|...)
Opt(ws) == [k |-> "opt", ws |-> charsOfAll(ws)]          \* (?:w1|w2|...)?
WB == [k |-> "wb"]                                       \* \b
OneOf(cs) == [k |-> "class", cs |-> {CharAt(cs, i) : i \in 1..Len(cs)}]  \* [cs]
WordPlus == [k |-> "word"]                               \* \w+
NotChar(c) == [k |-> "not", c |-> c]                     \* [^c]+

NoMatch == <<0>>

\* The number of characters from position i on that satisfy the test.
RECURSIVE spaceRun(_, _)
spaceRun(cs, i) ==
  IF i <= Len(cs) /\ IsSpace(cs[i]) THEN 1 + spaceRun(cs, i + 1) ELSE 0

RECURSIVE digitRun(_, _)
digitRun(cs, i) ==
  IF i <= Len(cs) /\ cs[i] \in DigitSet THEN 1 + digitRun(cs, i + 1) ELSE 0

RECURSIVE wordRun(_, _)
wordRun(cs, i) ==
  IF i <= Len(cs) /\ IsWordChar(cs[i]) THEN 1 + wordRun(cs, i + 1) ELSE 0

RECURSIVE otherRun(_, _, _)
otherRun(cs, i, c) ==
  IF i <= Len(cs) /\ cs[i] # c THEN 1 + otherRun(cs, i + 1, c) ELSE 0

litAt(cs, i, w) ==
  i + Len(w) - 1 <= Len(cs) /\ \A j \in 1..Len(w) : cs[i + j - 1] = w[j]

\* \b at position i: exactly one of the characters before and at i is a
\* word character.
wordBoundaryAt(cs, i) ==
  (i > 1 /\ IsWordChar(cs[i - 1])) # (i <= Len(cs) /\ IsWordChar(cs[i]))

\* The positions i + hi, ..., i + lo: the ends a greedy quantifier tries.
greedyEnds(i, lo, hi) ==
  IF hi < lo THEN << >> ELSE [j \in 1..(hi - lo + 1) |-> i + hi - j + 1]

RECURSIVE altEnds(_, _, _, _)
altEnds(cs, i, ws, j) ==
  IF j > Len(ws) THEN << >>
  ELSE (IF litAt(cs, i, ws[j]) THEN <<i + Len(ws[j])>> ELSE << >>)
       \o altEnds(cs, i, ws, j + 1)

\* The positions after element e matched at position i, in the order the
\* RegExp engine tries them.
elementEnds(cs, i, e) ==
  CASE e.k = "lit" -> IF litAt(cs, i, e.w) THEN <<i + Len(e.w)>> ELSE << >>
    [] e.k = "sp" -> greedyEnds(i, 1, spaceRun(cs, i))
    [] e.k = "digits" ->
         LET n == digitRun(cs, i)
         IN  greedyEnds(i, e.lo, IF n < e.hi THEN n ELSE e.hi)
    [] e.k = "alt" -> altEnds(cs, i, e.ws, 1)
    [] e.k = "opt" -> altEnds(cs, i, e.ws, 1) \o <<i>>
    [] e.k = "wb" -> IF wordBoundaryAt(cs, i) THEN <<i>> ELSE << >>
    [] e.k = "class" ->
         IF i <= Len(cs) /\ cs[i] \in e.cs THEN <<i + 1>> ELSE << >>
    [] e.k = "not" -> greedyEnds(i, 1, otherRun(cs, i, e.c))
    [] OTHER -> greedyEnds(i, 1, wordRun(cs, i))

\* Elements k.. of the pattern matched from position i: the end positions
\* of those elements, or NoMatch.
RECURSIVE matchFrom(_, _, _, _), firstEnd(_, _, _, _, _)
matchFrom(cs, i, pat, k) ==
  IF k > Len(pat) THEN << >>
  ELSE firstEnd(cs, elementEnds(cs, i, pat[k]), 1, pat, k)

firstEnd(cs, ends, j, pat, k) ==
  IF j > Len(ends) THEN NoMatch
  ELSE LET rest == matchFrom(cs, ends[j], pat, k + 1)
       IN  IF rest # NoMatch THEN <<ends[j]>> \o rest
           ELSE firstEnd(cs, ends, j + 1, pat, k)

\* A text prepared for matching: its lowercased characters and, for every
\* character, the positions where it stands.
textOf(s) ==
  LET cs == lowerChars(s)
  IN  [cs |-> cs,
       at |-> [c \in {cs[i] : i \in DOMAIN cs} |-> {i \in DOMAIN cs : cs[i] = c}]]

positionsOf(t, c) == IF c \in DOMAIN t.at THEN t.at[c] ELSE {}

\* The positions where a match of the pattern can start: those of the first
\* character of a pattern that begins with a text or with alternative
\* texts, every position otherwise.
startsOf(t, pat) ==
  CASE pat[1].k = "lit" -> positionsOf(t, pat[1].w[1])
    [] pat[1].k = "alt" ->
         UNION {positionsOf(t, pat[1].ws[j][1]) : j \in DOMAIN pat[1].ws}
    [] OTHER -> 1..(Len(t.cs) + 1)

\* s.match(pat) for the prepared text t: the start of the leftmost match
\* followed by the end positions of the elements, or NoMatch.
matchText(t, pat) ==
  LET found == {i \in startsOf(t, pat) : matchFrom(t.cs, i, pat, 1) # NoMatch}
  IN  IF found = {} THEN NoMatch
      ELSE LET i == CHOOSE a \in found : \A b \in found : a <= b
           IN  <<i>> \o matchFrom(t.cs, i, pat, 1)

testText(t, pat) == \E i \in startsOf(t, pat) : matchFrom(t.cs, i, pat, 1) # NoMatch

reMatch(s, pat) == matchText(textOf(s), pat)

reTest(s, pat) == testText(textOf(s), pat)

\* s.includes(w) for the prepared text of s and a lowercase text w.
includesText(t, w) == testText(t, <<Lit(w)>>)

\* match[0] and the text matched by element k, taken from the text itself.
matchedText(s, m) == SubSeq(s, m[1], m[Len(m)] - 1)

group(s, m, k) == SubSeq(s, m[k], m[k + 1] - 1)

(***************************************************************************)
(* analyzeUserPrompt: table detection                                      *)
(***************************************************************************)
\* Confidence values are kept in tenths: 0.3, 0.5 and their sums are the
\* integers 3, 5, ...  The floating-point sums the code compares differ by
\* at least 0.1 whenever they differ, so the comparisons are the same.
SynonymWeight == 3
PatternWeight == 5
DefaultConfidence == 5

TABLE_MAPPINGS ==
  << [key |-> "sales", table |-> "SalesReport_Form_Input",
      synonyms |-> <<"sales", "sale", "sold", "deal", "deals", "transaction",
                     "revenue", "gross", "purchase">>,
      patterns |-> << <<Lit("sales"), Sp, Lit("by"), Sp>>,
                      <<Lit("sales"), Sp, Lit("for"), Sp>>,
                      <<Lit("deals"), Sp, Lit("by"), Sp>>,
                      <<Lit("count"), Sp, Lit("deals")>>,
                      <<Lit("count"), Sp, Lit("sales")>> >>],
     [key |-> "inventory", table |-> "Common_Group_401_Vehicle_Inventory",
      synonyms |-> <<"inventory", "stock", "vehicles", "available", "on hand">>,
      patterns |-> << >>],
     [key |-> "rvac", table |-> "SaleWarranty_RVAC_CONTRACTS",
      synonyms |-> <<"rvac", "warranty", "contract", "service contract",
                     "extended warranty">>,
      patterns |-> << >>] >>

\* The confidence one TABLE_MAPPINGS entry accumulates for a prompt.
tableConfidence(config, promptLower) ==
  SynonymWeight *
    Cardinality({i \in DOMAIN config.synonyms :
                   includesText(promptLower, toLowerCase(config.synonyms[i]))})
  + PatternWeight *
    Cardinality({i \in DOMAIN config.patterns :
                   testText(promptLower, config.patterns[i])})

DefaultTable ==
  [table |-> "SalesReport_Form_Input", confidence |-> DefaultConfidence,
   key |-> "sales"]

\* A loop that replaces the choice on an equal confidence too.
RECURSIVE detectTableFrom_lastOnTie(_, _, _)
detectTableFrom_lastOnTie(promptLower, k, detected) ==
  IF k > Len(TABLE_MAPPINGS) THEN detected
  ELSE LET config == TABLE_MAPPINGS[k]
           confidence == tableConfidence(config, promptLower)
       IN  detectTableFrom_lastOnTie(promptLower, k + 1,
             IF confidence >= detected.confidence
             THEN [table |-> config.table, confidence |-> confidence,
                   key |-> config.key]
             ELSE detected)

\* The loop over TABLE_MAPPINGS from entry k on, detected being the choice
\* so far.
RECURSIVE detectTableFrom(_, _, _)
detectTableFrom(promptLower, k, detected) ==
  IF k > Len(TABLE_MAPPINGS) THEN detected
  ELSE LET config == TABLE_MAPPINGS[k]
           confidence == tableConfidence(config, promptLower)
       IN  detectTableFrom(promptLower, k + 1,
             IF confidence > detected.confidence
             THEN [table |-> config.table, confidence |-> confidence,
                   key |-> config.key]
             ELSE detected)

\* A detection that starts from no table at confidence 0.
detectTable_fromZero(prompt) ==
  detectTableFrom(textOf(prompt), 1, [DefaultTable EXCEPT !.confidence = 0])

detectTable(prompt) == detectTableFrom(textOf(prompt), 1, DefaultTable)

(***************************************************************************)
(* detectTimeRangeEnhanced                                                 *)
(***************************************************************************)
MonthNames ==
  <<"january", "february", "march", "april", "may", "june", "july", "august",
    "september", "october", "november", "december">>

OrdinalSuffix == Opt(<<"st", "nd", "rd", "th">>)

\* The patterns list, in its order.
timeRangePatterns ==
  << [type |-> "specific_month_year",
      regex |-> <<Digits(4, 4), Sp, Alt(MonthNames)>>],
     [type |-> "relative_month",
      regex |-> <<Alt(<<"last", "this", "next">>), Sp, Lit("month")>>],
     [type |-> "specific_year",
      regex |-> <<WB, Lit("20"), Digits(2, 2), WB>>],
     [type |-> "quarter_year",
      regex |-> <<Lit("q"), OneOf("1234"), Sp, Digits(4, 4)>>],
     [type |-> "specific_date",
      regex |-> <<Alt(MonthNames), Sp, Digits(1, 2), OrdinalSuffix, Lit(","),
                  Sp, Digits(4, 4)>>],
     [type |-> "ytd",
      regex |-> <<Alt(<<"ytd", "year to date", "this year so far">>)>>],
     [type |-> "mtd",
      regex |-> <<Alt(<<"mtd", "month to date", "this month so far">>)>>],
     [type |-> "relative_year",
      regex |-> <<Alt(<<"last", "this", "next">>), Sp, Lit("year")>>],
     [type |-> "relative_quarter",
      regex |-> <<Alt(<<"last", "this">>), Sp, Lit("quarter")>>],
     [type |-> "today", regex |-> <<Lit("today")>>],
     [type |-> "yesterday", regex |-> <<Lit("yesterday")>>],
     [type |-> "day_before_yesterday", regex |-> <<Lit("day before yesterday")>>],
     [type |-> "this_week", regex |-> <<Lit("this week")>>],
     [type |-> "last_week", regex |-> <<Lit("last week")>>],
     [type |-> "last_7_days", regex |-> <<Alt(<<"last 7 days", "past week">>)>>],
     [type |-> "last_30_days", regex |-> <<Alt(<<"last 30 days", "past month">>)>>],
     [type |-> "custom_range",
      regex |-> <<Lit("from"), Sp, Alt(MonthNames), Sp, Digits(1, 2),
                  OrdinalSuffix, Sp, Lit("to"), Sp, Alt(MonthNames), Sp,
                  Digits(1, 2), OrdinalSuffix, Sp, Digits(4, 4)>>] >>

\* parseInt(d, 10) of a text of digits.
RECURSIVE parseInt(_)
parseInt(d) ==
  IF d = "" THEN 0
  ELSE 10 * parseInt(SubSeq(d, 1, Len(d) - 1))
       + (IndexIn(CharAt(d, Len(d)), DigitChars) - 1)

\* n.toString() of a natural number.
RECURSIVE numberToString(_)
numberToString(n) ==
  IF n < 10 THEN CharAt(DigitChars, n + 1)
  ELSE numberToString(n \div 10) \o CharAt(DigitChars, (n % 10) + 1)

\* n.toString().padStart(2, '0')
padStart2(n) ==
  LET t == numberToString(n) IN IF Len(t) < 2 THEN "0" \o t ELSE t

\* new Date(name + ' 1').getMonth() + 1 for a month name.
monthNumber(name) ==
  CHOOSE k \in DOMAIN MonthNames : MonthNames[k] = toLowerCase(name)

\* w.charAt(0).toUpperCase() + w.slice(1).toLowerCase()
capitalize(w) == toUpperCase(SubSeq(w, 1, 1)) \o toLowerCase(SubSeq(w, 2, Len(w)))

ThisMonthCondition ==
  "MONTH_REPORTED = DATENAME(MONTH, GETDATE()) AND YEAR_REPORTED = YEAR(GETDATE())"

LastMonthCondition ==
  "MONTH_REPORTED = DATENAME(MONTH, DATEADD(MONTH, -1, GETDATE())) AND YEAR_REPORTED = YEAR(DATEADD(MONTH, -1, GETDATE()))"

isoDate(year, monthName, day) ==
  year \o "-" \o padStart2(monthNumber(monthName)) \o "-" \o padStart2(parseInt(day))

\* The handler of the rule of the given type, applied to the match m of its
\* regex in the prompt.
timeRangeHandler(type, prompt, m) ==
  CASE type = "specific_month_year" ->
         [year |-> group(prompt, m, 1),
          month |-> toLowerCase(group(prompt, m, 3)),
          sqlCondition |->
            "MONTH_REPORTED = '" \o capitalize(group(prompt, m, 3))
            \o "' AND YEAR_REPORTED = '" \o group(prompt, m, 1) \o "'"]
    [] type = "relative_month" ->
         LET month == toLowerCase(group(prompt, m, 1))
         IN  [relative |-> month,
              sqlCondition |->
                IF month = "last" THEN LastMonthCondition ELSE ThisMonthCondition]
    [] type = "specific_year" ->
         [year |-> matchedText(prompt, m),
          sqlCondition |-> "YEAR_REPORTED = '" \o matchedText(prompt, m) \o "'"]
    [] type = "quarter_year" ->
         [quarter |-> group(prompt, m, 2), year |-> group(prompt, m, 4),
          sqlCondition |->
            "DATEPART(QUARTER, DATE_REPORTED) = " \o group(prompt, m, 2)
            \o " AND YEAR(DATE_REPORTED) = " \o group(prompt, m, 4)]
    [] type = "specific_date" ->
         LET dateStr == isoDate(group(prompt, m, 7), group(prompt, m, 1),
                                group(prompt, m, 3))
         IN  [date |-> dateStr,
              sqlCondition |-> "CAST(DATE_REPORTED AS DATE) = '" \o dateStr \o "'"]
    [] type = "ytd" ->
         [sqlCondition |->
            "DATE_REPORTED >= DATEFROMPARTS(YEAR(GETDATE()), 1, 1) AND DATE_REPORTED <= GETDATE()"]
    [] type = "mtd" ->
         [sqlCondition |->
            "DATE_REPORTED >= DATEFROMPARTS(YEAR(GETDATE()), MONTH(GETDATE()), 1) AND DATE_REPORTED <= GETDATE()"]
    [] type = "relative_year" ->
         LET rel == toLowerCase(group(prompt, m, 1))
             offset == IF rel = "last" THEN "-1" ELSE IF rel = "next" THEN "1" ELSE "0"
         IN  [relative |-> rel,
              sqlCondition |->
                "YEAR_REPORTED = YEAR(DATEADD(YEAR, " \o offset \o ", GETDATE()))"]
    [] type = "relative_quarter" ->
         LET rel == toLowerCase(group(prompt, m, 1))
             offset == IF rel = "last" THEN "-1" ELSE "0"
         IN  [relative |-> rel,
              sqlCondition |->
                "DATEPART(QUARTER, DATE_REPORTED) = DATEPART(QUARTER, DATEADD(QUARTER, "
                \o offset \o ", GETDATE())) AND YEAR(DATE_REPORTED) = YEAR(DATEADD(QUARTER, "
                \o offset \o ", GETDATE()))"]
    [] type = "today" ->
         [sqlCondition |-> "CAST(DATE_REPORTED AS DATE) = CAST(GETDATE() AS DATE)"]
    [] type = "yesterday" ->
         [sqlCondition |->
            "CAST(DATE_REPORTED AS DATE) = CAST(DATEADD(DAY, -1, GETDATE()) AS DATE)"]
    [] type = "day_before_yesterday" ->
         [sqlCondition |->
            "CAST(DATE_REPORTED AS DATE) = CAST(DATEADD(DAY, -2, GETDATE()) AS DATE)"]
    [] type = "this_week" ->
         [sqlCondition |->
            "DATE_REPORTED >= DATEADD(DAY, 1 - DATEPART(WEEKDAY, GETDATE()), CAST(GETDATE() AS DATE)) AND DATE_REPORTED < DATEADD(DAY, 8 - DATEPART(WEEKDAY, GETDATE()), CAST(GETDATE() AS DATE))"]
    [] type = "last_week" ->
         [sqlCondition |->
            "DATE_REPORTED >= DATEADD(DAY, 1 - DATEPART(WEEKDAY, DATEADD(DAY, -7, GETDATE())), CAST(DATEADD(DAY, -7, GETDATE()) AS DATE)) AND DATE_REPORTED < DATEADD(DAY, 8 - DATEPART(WEEKDAY, DATEADD(DAY, -7, GETDATE())), CAST(DATEADD(DAY, -7, GETDATE()) AS DATE))"]
    [] type = "last_7_days" ->
         [sqlCondition |->
            "DATE_REPORTED >= DATEADD(DAY, -7, GETDATE()) AND DATE_REPORTED < GETDATE()"]
    [] type = "last_30_days" ->
         [sqlCondition |->
            "DATE_REPORTED >= DATEADD(DAY, -30, GETDATE()) AND DATE_REPORTED < GETDATE()"]
    [] OTHER ->
         LET startDate == isoDate(group(prompt, m, 15), group(prompt, m, 3),
                                  group(prompt, m, 5))
             endDate == isoDate(group(prompt, m, 15), group(prompt, m, 10),
                                group(prompt, m, 12))
         IN  [start |-> startDate, end |-> endDate,
              sqlCondition |->
                "CAST(DATE_REPORTED AS DATE) BETWEEN '" \o startDate
                \o "' AND '" \o endDate \o "'"]

\* The loop over the patterns from rule k on: the handler's object of the
\* first rule whose regex matches, null when none does.
RECURSIVE detectTimeRangeFrom(_, _, _, _)
detectTimeRangeFrom(prompt, promptLower, patterns, k) ==
  IF k > Len(patterns) THEN Null
  ELSE LET match == matchText(promptLower, patterns[k].regex)
       IN  IF match # NoMatch
           THEN timeRangeHandler(patterns[k].type, prompt, match)
           ELSE detectTimeRangeFrom(prompt, promptLower, patterns, k + 1)

detectTimeRangeEnhanced(prompt) ==
  detectTimeRangeFrom(prompt, textOf(prompt), timeRangePatterns, 1)

(***************************************************************************)
(* detectGroupBy                                                           *)
(***************************************************************************)
groupPatterns ==
  << [pattern |-> <<Lit("by"), Sp, Lit("location")>>, column |-> "DEALER_LOCATION"],
     [pattern |-> <<Lit("by"), Sp, Lit("month")>>, column |-> "MONTH_REPORTED"],
     [pattern |-> <<Lit("by"), Sp, Lit("year")>>, column |-> "YEAR_REPORTED"],
     [pattern |-> <<Lit("by"), Sp, Lit("dealer")>>, column |-> "DEALER_LOCATION"],
     [pattern |-> <<Lit("per"), Sp, Lit("location")>>, column |-> "DEALER_LOCATION"],
     [pattern |-> <<Lit("by"), Sp, Lit("quarter")>>,
      column |-> "DATEPART(QUARTER, DATE_REPORTED)"],
     [pattern |-> <<Lit("by"), Sp, Lit("week")>>,
      column |-> "DATEPART(WEEK, DATE_REPORTED)"],
     [pattern |-> <<Lit("by"), Sp, Lit("day")>>,
      column |-> "CAST(DATE_REPORTED AS DATE)"] >>

RECURSIVE detectGroupByFrom(_, _)
detectGroupByFrom(promptLower, k) ==
  IF k > Len(groupPatterns)
  THEN IF includesText(promptLower, "by location")
          \/ includesText(promptLower, "per location")
       THEN Str("DEALER_LOCATION") ELSE Null
  ELSE IF testText(promptLower, groupPatterns[k].pattern)
       THEN Str(groupPatterns[k].column)
       ELSE detectGroupByFrom(promptLower, k + 1)

detectGroupBy(prompt) == detectGroupByFrom(textOf(prompt), 1)

(***************************************************************************)
(* analyzeUserPrompt: filter and aggregate detection                       *)
(***************************************************************************)
COLUMN_MAPPINGS ==
  << [key |-> "dealership", column |-> "DEALER_LOCATION", function |-> "",
      synonyms |-> <<"dealership", "dealer", "location", "store", "branch",
                     "by location", "per location">>,
      patterns |-> << <<Lit("by"), Sp, Lit("location")>>,
                      <<Lit("per"), Sp, Lit("location")>>,
                      <<Lit("location"), Sp, Lit("wise")>> >>],
     [key |-> "gross", column |-> "TOTAL_COST", function |-> "SUM",
      synonyms |-> <<"gross", "total cost", "revenue", "amount", "price",
                     "cost", "total", "total gross">>,
      patterns |-> << <<Lit("total"), Sp, Lit("cost")>>,
                      <<Lit("total"), Sp, Lit("gross")>> >>],
     [key |-> "front_gross", column |-> "FRONT_COST", function |-> "SUM",
      synonyms |-> <<"front gross", "front cost", "front", "front profit",
                     "front margin">>,
      patterns |-> << <<Lit("front"), Sp, Lit("gross")>>,
                      <<Lit("front"), Sp, Lit("cost")>> >>],
     [key |-> "fi_gross", column |-> "FI_COST", function |-> "SUM",
      synonyms |-> <<"fi gross", "fi cost", "finance income", "fi income",
                     "finance gross", "backend gross">>,
      patterns |-> << <<Lit("fi"), Sp, Lit("gross")>>,
                      <<Lit("fi"), Sp, Lit("cost")>>,
                      <<Lit("finance"), Sp, Lit("income")>> >>],
     [key |-> "count", column |-> "ID", function |-> "COUNT",
      synonyms |-> <<"count", "number", "how many", "total deals", "total sales">>,
      patterns |-> << <<Lit("count")>>, <<Lit("number of")>>, <<Lit("how many")>> >>],
     [key |-> "month", column |-> "MONTH_REPORTED", function |-> "",
      synonyms |-> <<"month", "monthly", "last month", "this month", "mtd">>
                   \o MonthNames,
      patterns |-> << <<Alt(MonthNames)>> >>],
     [key |-> "year", column |-> "YEAR_REPORTED", function |-> "",
      synonyms |-> <<"year", "yearly", "annual", "last year", "this year",
                     "ytd", "year to date">>,
      patterns |-> << <<WB, Lit("20"), Digits(2, 2), WB>>,
                      <<WB, Lit("19"), Digits(2, 2), WB>>,
                      <<Lit("year")>>, <<Lit("ytd")>>, <<Lit("annual")>> >>],
     [key |-> "quarter", column |-> "DATEPART(QUARTER, DATE_REPORTED)",
      function |-> "",
      synonyms |-> <<"quarter", "quarterly", "q1", "q2", "q3", "q4">>,
      patterns |-> << <<Lit("q"), OneOf("1234")>>, <<Lit("quarter")>>,
                      <<Lit("quarterly")>> >>],
     [key |-> "day", column |-> "DATE_REPORTED", function |-> "",
      synonyms |-> <<"day", "daily", "today", "yesterday", "date",
                     "specific date", "day before yesterday">>,
      patterns |-> << <<Lit("today")>>, <<Lit("yesterday")>>,
                      <<Lit("day before yesterday")>>,
                      <<WB, WordPlus, Sp, Digits(1, 2), OrdinalSuffix, Lit(","),
                        Sp, Digits(4, 4), WB>>,
                      <<Lit("daily")>> >>],
     [key |-> "week", column |-> "DATE_REPORTED", function |-> "",
      synonyms |-> <<"week", "weekly", "this week", "last week", "week to date">>,
      patterns |-> << <<Lit("week")>>, <<Lit("weekly")>> >>] >>

\* s.indexOf(p) + 1: the position of the first occurrence of p, 0 for none.
RECURSIVE indexOfFrom(_, _, _)
indexOfFrom(s, p, i) ==
  IF i + Len(p) - 1 > Len(s) THEN 0
  ELSE IF SubSeq(s, i, i + Len(p) - 1) = p THEN i
  ELSE indexOfFrom(s, p, i + 1)

indexOf(s, p) == indexOfFrom(s, p, 1)

\* The first element of s.split(/\s+/) for a trimmed text s, and the text
\* after it and the separator.
firstWord(s) ==
  LET sp == {i \in 1..Len(s) : IsSpace(CharAt(s, i))}
  IN  IF sp = {} THEN s
      ELSE SubSeq(s, 1, (CHOOSE i \in sp : \A j \in sp : i <= j) - 1)

afterFirstWord(s) == trimStart(SubSeq(s, Len(firstWord(s)) + 1, Len(s)))

StopWords == {"for", "in", "by", "with", "and", "the", "a", "an"}

YearPattern == <<WB, Lit("20"), Digits(2, 2), WB>>

MonthPattern == <<Alt(MonthNames)>>

\* prompt.match(/"([^"]+)"|'([^']+)'/): the quoted text of the leftmost
\* match, the double-quoted alternative first; null when there is none.
quotedValue(prompt) ==
  LET double == reMatch(prompt, <<Lit("\""), NotChar("\""), Lit("\"")>>)
      single == reMatch(prompt, <<Lit("'"), NotChar("'"), Lit("'")>>)
  IN  IF double # NoMatch /\ (single = NoMatch \/ double[1] <= single[1])
      THEN Str(group(prompt, double, 2))
      ELSE IF single # NoMatch THEN Str(group(prompt, single, 2))
      ELSE Null

\* extractValueFromPrompt(prompt, keyword, matchedPattern); matchedPattern
\* is a JS value, Null when the argument is omitted.
extractValueFromPrompt(prompt, keyword, matchedPattern) ==
  LET promptLower == toLowerCase(prompt)
      keywordLower == toLowerCase(keyword)
      patYear == reMatch(matchedPattern.v, YearPattern)
      patMonth == reMatch(matchedPattern.v, MonthPattern)
      quoted == quotedValue(prompt)
      idx == indexOf(promptLower, keywordLower)
      after == SubSeq(prompt, idx + Len(keyword), Len(prompt))
      word0 == firstWord(trim(after))
      word1 == firstWord(afterFirstWord(trim(after)))
      afterYear == reMatch(after, YearPattern)
      afterMonth == reMatch(after, MonthPattern)
  IN  IF ~Falsy(matchedPattern) /\ keywordLower = "year" /\ patYear # NoMatch
      THEN Str(matchedText(matchedPattern.v, patYear))
      ELSE IF ~Falsy(matchedPattern) /\ keywordLower = "month" /\ patMonth # NoMatch
      THEN Str(matchedText(matchedPattern.v, patMonth))
      ELSE IF quoted # Null THEN quoted
      ELSE IF idx = 0 THEN Null
      ELSE IF includes(keywordLower, "year") /\ afterYear # NoMatch
      THEN Str(matchedText(after, afterYear))
      ELSE IF includes(keywordLower, "month") /\ afterMonth # NoMatch
      THEN Str(matchedText(after, afterMonth))
      ELSE IF word0 # "" /\ toLowerCase(word0) \notin StopWords THEN Str(word0)
      ELSE IF word1 # "" THEN Str(word1)
      ELSE Null

getAggregateAlias(concept) ==
  CASE concept = "count" -> "TotalDeals"
    [] concept = "gross" -> "TotalGross"
    [] concept = "front_gross" -> "FrontGross"
    [] concept = "fi_gross" -> "FIGross"
    [] concept = "total_cost" -> "TotalCost"
    [] OTHER -> capitalize(concept)

Detection(config, value) ==
  [column |-> config.column, concept |-> config.key, value |-> value,
   isAggregate |-> config.function # ""]

\* The records pushed for the patterns of one concept from pattern k on:
\* one for every pattern that matches.
RECURSIVE patternDetections(_, _, _, _)
patternDetections(prompt, promptLower, config, k) ==
  IF k > Len(config.patterns) THEN << >>
  ELSE LET match == matchText(promptLower, config.patterns[k])
       IN  (IF match # NoMatch
            THEN <<Detection(config,
                     extractValueFromPrompt(prompt, config.synonyms[1],
                                            Str(matchedText(prompt, match))))>>
            ELSE << >>)
           \o patternDetections(prompt, promptLower, config, k + 1)

\* The record pushed for the first synonym, from synonym k on, found in the
\* prompt.
RECURSIVE synonymDetections(_, _, _, _)
synonymDetections(prompt, promptLower, config, k) ==
  IF k > Len(config.synonyms) THEN << >>
  ELSE IF includesText(promptLower, toLowerCase(config.synonyms[k]))
       THEN <<Detection(config,
                extractValueFromPrompt(prompt, config.synonyms[k], Null))>>
       ELSE synonymDetections(prompt, promptLower, config, k + 1)

\* The records one COLUMN_MAPPINGS entry contributes: those of its patterns
\* or, when no pattern matched, that of its first synonym found.
conceptDetections(prompt, promptLower, config) ==
  LET byPattern == patternDetections(prompt, promptLower, config, 1)
  IN  IF byPattern # << >> THEN byPattern
      ELSE synonymDetections(prompt, promptLower, config, 1)

RECURSIVE allDetections(_, _, _)
allDetections(prompt, promptLower, k) ==
  IF k > Len(COLUMN_MAPPINGS) THEN << >>
  ELSE conceptDetections(prompt, promptLower, COLUMN_MAPPINGS[k])
       \o allDetections(prompt, promptLower, k + 1)

functionOf(concept) ==
  LET k == CHOOSE i \in DOMAIN COLUMN_MAPPINGS : COLUMN_MAPPINGS[i].key = concept
  IN  COLUMN_MAPPINGS[k].function

Aggregate(column, function, alias) ==
  [column |-> column, function |-> function, alias |-> alias]

RECURSIVE aggregatesOf(_)
aggregatesOf(detections) ==
  IF detections = << >> THEN << >>
  ELSE (IF Head(detections).isAggregate
        THEN <<Aggregate(Head(detections).column,
                         functionOf(Head(detections).concept),
                         getAggregateAlias(Head(detections).concept))>>
        ELSE << >>)
       \o aggregatesOf(Tail(detections))

hasCount(aggregates) == \E i \in DOMAIN aggregates : aggregates[i].function = "COUNT"

\* A special handling that adds COUNT(ID) whenever "count" is mentioned.
detectAggregates_alwaysCount(prompt, detections) ==
  LET aggregates == aggregatesOf(detections)
  IN  IF includes(toLowerCase(prompt), "count")
      THEN Append(aggregates, Aggregate("ID", "COUNT", "TotalDeals"))
      ELSE aggregates

\* The aggregates list with the special handling of "count".
detectAggregates(prompt, detections) ==
  LET aggregates == aggregatesOf(detections)
  IN  IF includes(toLowerCase(prompt), "count") /\ ~hasCount(aggregates)
      THEN Append(aggregates, Aggregate("ID", "COUNT", "TotalDeals"))
      ELSE aggregates

\* /table\s+format|tabular|grid|spreadsheet/i.test(prompt)
requiresTableFormat(prompt) ==
  \/ reTest(prompt, <<Lit("table"), Sp, Lit("format")>>)
  \/ reTest(prompt, <<Alt(<<"tabular", "grid", "spreadsheet">>)>>)

analyzeUserPrompt(prompt) ==
  LET promptLower == textOf(prompt)
      detections == allDetections(prompt, promptLower, 1)
  IN  [table |-> detectTable(prompt),
       filters |-> SelectSeq(detections, LAMBDA f : ~f.isAggregate),
       aggregates |-> detectAggregates(prompt, detections),
       timeRange |-> detectTimeRangeEnhanced(prompt),
       presentation |->
         [format |-> IF requiresTableFormat(prompt) THEN "table" ELSE "default",
          groupBy |-> detectGroupBy(prompt)]]

PromptIdle ==
  pPhase = "idle" /\ pPrompt = "" /\ pParts = 0 /\ pAnalysis = Null

(***************************************************************************)
(* The HTTP request handlers.  One request is followed from its arrival to *)
(* its response; a handler advances from one await to the next.            *)
(***************************************************************************)
MaxBatch == 5

\* Prompts of /query requests: absent, empty, and texts with and without a
\* chart phrase.
Prompts ==
  {Undefined, Str(""), Str("total gross by month"), Str("sales as a Bar Chart"),
   Str("line  graph of deals"), Str("piechart of gross"),
   Str("deals in a table as bar graph"), Str("tabular list")}

\* What the chat-completion response carries at choices[0].message.content.
LlmContents ==
  {Undefined, Null, Str(""), Str(" \n"),
   Str("SELECT a FROM t"), Str(" select a from t ;\n"),
   Str(Fence \o "sql\nSELECT a FROM t\n" \o Fence),
   Str("SELECT a FROM t; DROP TABLE Users; --"),
   Str("SELECT a FROM t;DROP TABLE Users"),
   Str("SELECT a FROM t drop\ttable u"),
   Str("DELETE FROM t"), Str("I cannot answer that")}

\* Record sets the database returns.
Recordsets ==
  {<< >>,
   << << [name |-> "MONTH_REPORTED", value |-> Cell("string", "January")],
         [name |-> "TotalGross", value |-> Cell("number", "1200.5")] >> >>,
   << << [name |-> "DEALER_LOCATION", value |-> Cell("string", "Barrie")],
         [name |-> "TotalGross", value |-> Cell("string", "1200.50")] >> >>,
   << << [name |-> "DEALER_LOCATION", value |-> Cell("string", "Barrie")],
         [name |-> "CLOSER", value |-> Cell("null", "null")] >> >>,
   << << [name |-> "YEAR_REPORTED", value |-> Cell("number", "2025")] >> >>,
   << << [name |-> "MONTH_REPORTED", value |-> Cell("string", "January")],
         [name |-> "CLOSER", value |-> Cell("string", "-5")] >> >>,
   << << [name |-> "DEALER_LOCATION", value |-> Cell("string", "Barrie")],
         [name |-> "GROSS", value |-> Cell("null", "null")] >>,
      << [name |-> "DEALER_LOCATION", value |-> Cell("string", "Orillia")],
         [name |-> "GROSS", value |-> Cell("number", "310")] >> >>,
   << << [name |-> "ID", value |-> Cell("number", "7")],
         [name |-> "MAKE", value |-> Cell("string", "Ford")],
         [name |-> "MODEL", value |-> Cell("string", "F150")],
         [name |-> "STOCK", value |-> Cell("string", "A12")] >>,
      << [name |-> "ID", value |-> Cell("number", "8")],
         [name |-> "MAKE", value |-> Cell("string", "Kia")],
         [name |-> "MODEL", value |-> Cell("string", "Rio")],
         [name |-> "STOCK", value |-> Cell("string", "B7")] >> >>}

NoSummary == [total |-> 0, completed |-> 0, failed |-> 0]

NoBody ==
  [question |-> Undefined, dataKind |-> "missing", text |-> Undefined,
   isArray |-> FALSE, n |-> 0]

HttpIdle ==
  /\ hRoute = "none" /\ hPc = "idle" /\ hPrompt = Undefined /\ hBody = NoBody
  /\ hSqlQuery = ""
  /\ hSafeArg = "" /\ hSafe = "none" /\ hCalls = << >> /\ hStatus = 0
  /\ hError = "" /\ hSqlOut = Undefined /\ hRows = << >> /\ hViz = ""
  /\ hItems = 0 /\ hIndex = 0 /\ hResults = << >> /\ hSummary = NoSummary

Call(kind, arg) == [kind |-> kind, arg |-> arg]

\* res.status(status).json({ error }) and the end of the handler.
Respond(status, error) ==
  /\ hStatus' = status /\ hError' = error /\ hPc' = "done"

\* app.post('/api/query'), up to the await of the chat-completion call.
QueryRequest(prompt) ==
  /\ hRoute = "none"
  /\ hBody' = NoBody
  /\ hRoute' = "query" /\ hPrompt' = prompt
  /\ IF Falsy(prompt)
     THEN Respond(400, "prompt required") /\ UNCHANGED hCalls
     ELSE IF ~apiKeySet
     THEN Respond(500, "Error: GROQ_API_KEY not set in .env") /\ UNCHANGED hCalls
     ELSE /\ hCalls' = Append(hCalls, Call("llm", prompt.v))
          /\ hPc' = "query_llm" /\ UNCHANGED <<hStatus, hError>>
  /\ UNCHANGED <<hSqlQuery, hSafeArg, hSafe, hSqlOut, hRows, hViz, hItems,
                 hIndex, hResults, hSummary, apiKeySet>>
  /\ UNCHANGED nonHttpVars

\* A /query handler that sends the chat-completion request a second time
\* when the first one failed.
QueryLlmFails_retriesOnce ==
  /\ hPc = "query_llm"
  /\ IF Len(hCalls) < 2
     THEN /\ hCalls' = Append(hCalls, Call("llm", hPrompt.v))
          /\ UNCHANGED <<hPc, hStatus, hError>>
     ELSE Respond(500, "Error: chat completion failed") /\ UNCHANGED hCalls
  /\ UNCHANGED <<hRoute, hPrompt, hSqlQuery, hSafeArg, hSafe, hSqlOut,
                 hRows, hViz, hItems, hIndex, hResults, hSummary, apiKeySet>>
  /\ UNCHANGED <<hBody, nonHttpVars>>

\* The chat-completion call failed: the catch block answers 500.
QueryLlmFails ==
  /\ hPc = "query_llm"
  /\ Respond(500, "Error: chat completion failed")
  /\ UNCHANGED <<hRoute, hPrompt, hSqlQuery, hSafeArg, hSafe, hCalls, hSqlOut,
                 hRows, hViz, hItems, hIndex, hResults, hSummary, apiKeySet>>
  /\ UNCHANGED <<hBody, nonHttpVars>>

\* The /query handler without its safety check.
QueryLlmReturns_unchecked(content) ==
  /\ hPc = "query_llm"
  /\ LET sqlQuery == validateAndCleanSql(OptTrim(content))
     IN  /\ hSqlQuery' = sqlQuery
         /\ IF sqlQuery = ""
            THEN /\ Respond(500, "LLM did not return SQL")
                 /\ UNCHANGED <<hSafeArg, hSafe, hSqlOut, hCalls>>
            ELSE /\ hSafeArg' = sqlQuery
                 /\ hSafe' = IF isSafeSelect(Str(sqlQuery)) THEN "true" ELSE "false"
                 /\ hCalls' = Append(hCalls, Call("db_connect", ""))
                 /\ hPc' = "query_connect"
                 /\ UNCHANGED <<hStatus, hError, hSqlOut>>
  /\ UNCHANGED <<hRoute, hPrompt, hRows, hViz, hItems, hIndex, hResults,
                 hSummary, apiKeySet>>
  /\ UNCHANGED <<hBody, nonHttpVars>>

\* The chat-completion call returned: generateSqlFromPrompt cleans the
\* content, the handler checks it and opens the database connection.
QueryLlmReturns(content) ==
  /\ hPc = "query_llm"
  /\ LET sqlQuery == validateAndCleanSql(OptTrim(content))
     IN  /\ hSqlQuery' = sqlQuery
         /\ IF sqlQuery = ""
            THEN /\ Respond(500, "LLM did not return SQL")
                 /\ UNCHANGED <<hSafeArg, hSafe, hSqlOut, hCalls>>
            ELSE /\ hSafeArg' = sqlQuery
                 /\ IF ~isSafeSelect(Str(sqlQuery))
                    THEN /\ hSafe' = "false"
                         /\ Respond(400, "Generated SQL is not allowed by policy.")
                         /\ hSqlOut' = Str(sqlQuery)
                         /\ UNCHANGED hCalls
                    ELSE /\ hSafe' = "true"
                         /\ hCalls' = Append(hCalls, Call("db_connect", ""))
                         /\ hPc' = "query_connect"
                         /\ UNCHANGED <<hStatus, hError, hSqlOut>>
  /\ UNCHANGED <<hRoute, hPrompt, hRows, hViz, hItems, hIndex, hResults,
                 hSummary, apiKeySet>>
  /\ UNCHANGED <<hBody, nonHttpVars>>

\* sql.connect settled: on failure 500, otherwise the statement is sent.
QueryDbConnected(ok) ==
  /\ hPc = "query_connect"
  /\ IF ok
     THEN /\ hCalls' = Append(hCalls, Call("db_query", hSqlQuery))
          /\ hPc' = "query_db" /\ UNCHANGED <<hStatus, hError>>
     ELSE Respond(500, "Error: connection failed") /\ UNCHANGED hCalls
  /\ UNCHANGED <<hRoute, hPrompt, hSqlQuery, hSafeArg, hSafe, hSqlOut, hRows,
                 hViz, hItems, hIndex, hResults, hSummary, apiKeySet>>
  /\ UNCHANGED <<hBody, nonHttpVars>>

\* sql.query failed.
QueryDbFails ==
  /\ hPc = "query_db"
  /\ Respond(500, "Error: query failed")
  /\ UNCHANGED <<hRoute, hPrompt, hSqlQuery, hSafeArg, hSafe, hCalls, hSqlOut,
                 hRows, hViz, hItems, hIndex, hResults, hSummary, apiKeySet>>
  /\ UNCHANGED <<hBody, nonHttpVars>>

\* sql.query returned: the chart type is chosen and the rows are sent.
QueryDbReturns(recordset) ==
  /\ hPc = "query_db"
  /\ hStatus' = 200 /\ hPc' = "done"
  /\ hSqlOut' = Str(hSqlQuery)
  /\ hRows' = recordset
  /\ hViz' = chooseVisualization(hPrompt.v, recordset)
  /\ UNCHANGED <<hRoute, hPrompt, hSqlQuery, hSafeArg, hSafe, hCalls, hError,
                 hItems, hIndex, hResults, hSummary, apiKeySet>>
  /\ UNCHANGED <<hBody, nonHttpVars>>

\* Question and text fields of the analysis requests.
Questions == {Undefined, Str(""), Str("why did gross fall")}

\* The data field of an analysis request: absent, rows, a text, or an array
\* whose first element is null (Object.keys(null) throws before any call).
DataKinds == {"missing", "table", "text", "badrows"}

\* The error text of the 500 response of each analysis endpoint.
FailureText(route) ==
  CASE route = "ask" -> "Failed to process question"
    [] route = "analyze" -> "Failed to analyze data"
    [] route = "analyze-text" -> "Failed to analyze text"
    [] OTHER -> "Failed to process batch requests"

\* analyzeDataWithGrok up to its await: the data is rendered, the key is
\* checked and the chat-completion request is sent.  TRUE when it is sent.
AnalysisCallSent(dataKind) == dataKind # "badrows" /\ apiKeySet

\* app.post('/api/ask')
AskRequest(question) ==
  /\ hRoute = "none"
  /\ hBody' = [NoBody EXCEPT !.question = question]
  /\ hRoute' = "ask"
  /\ IF Falsy(question)
     THEN Respond(400, "Question is required") /\ UNCHANGED hCalls
     ELSE IF ~AnalysisCallSent("missing")
     THEN Respond(500, FailureText("ask")) /\ UNCHANGED hCalls
     ELSE /\ hCalls' = Append(hCalls, Call("llm", question.v))
          /\ hPc' = "analysis_llm" /\ UNCHANGED <<hStatus, hError>>
  /\ UNCHANGED <<hPrompt, hSqlQuery, hSafeArg, hSafe, hSqlOut, hRows, hViz,
                 hItems, hIndex, hResults, hSummary, apiKeySet>>
  /\ UNCHANGED nonHttpVars

\* The /analyze handler without its test of the data field.
AnalyzeRequest_noDataCheck(question, dataKind) ==
  /\ hRoute = "none"
  /\ hBody' = [NoBody EXCEPT !.question = question, !.dataKind = dataKind]
  /\ hRoute' = "analyze"
  /\ IF Falsy(question)
     THEN Respond(400, "Question is required") /\ UNCHANGED hCalls
     ELSE IF ~AnalysisCallSent(dataKind)
     THEN Respond(500, FailureText("analyze")) /\ UNCHANGED hCalls
     ELSE /\ hCalls' = Append(hCalls, Call("llm", question.v))
          /\ hPc' = "analysis_llm" /\ UNCHANGED <<hStatus, hError>>
  /\ UNCHANGED <<hPrompt, hSqlQuery, hSafeArg, hSafe, hSqlOut, hRows, hViz,
                 hItems, hIndex, hResults, hSummary, apiKeySet>>
  /\ UNCHANGED nonHttpVars

\* app.post('/api/analyze')
AnalyzeRequest(question, dataKind) ==
  /\ hRoute = "none"
  /\ hBody' = [NoBody EXCEPT !.question = question, !.dataKind = dataKind]
  /\ hRoute' = "analyze"
  /\ IF Falsy(question)
     THEN Respond(400, "Question is required") /\ UNCHANGED hCalls
     ELSE IF dataKind = "missing"
     THEN Respond(400, "Data is required for analysis") /\ UNCHANGED hCalls
     ELSE IF ~AnalysisCallSent(dataKind)
     THEN Respond(500, FailureText("analyze")) /\ UNCHANGED hCalls
     ELSE /\ hCalls' = Append(hCalls, Call("llm", question.v))
          /\ hPc' = "analysis_llm" /\ UNCHANGED <<hStatus, hError>>
  /\ UNCHANGED <<hPrompt, hSqlQuery, hSafeArg, hSafe, hSqlOut, hRows, hViz,
                 hItems, hIndex, hResults, hSummary, apiKeySet>>
  /\ UNCHANGED nonHttpVars

\* app.post('/api/analyze-text')
AnalyzeTextRequest(text) ==
  /\ hRoute = "none"
  /\ hBody' = [NoBody EXCEPT !.text = text]
  /\ hRoute' = "analyze-text"
  /\ IF Falsy(text)
     THEN Respond(400, "Text is required") /\ UNCHANGED hCalls
     ELSE IF ~AnalysisCallSent("missing")
     THEN Respond(500, FailureText("analyze-text")) /\ UNCHANGED hCalls
     ELSE /\ hCalls' = Append(hCalls, Call("llm", text.v))
          /\ hPc' = "analysis_llm" /\ UNCHANGED <<hStatus, hError>>
  /\ UNCHANGED <<hPrompt, hSqlQuery, hSafeArg, hSafe, hSqlOut, hRows, hViz,
                 hItems, hIndex, hResults, hSummary, apiKeySet>>
  /\ UNCHANGED nonHttpVars

\* The chat-completion call of /ask, /analyze or /analyze-text settled.
AnalysisLlmSettles(ok) ==
  /\ hPc = "analysis_llm"
  /\ IF ok THEN Respond(200, "") ELSE Respond(500, FailureText(hRoute))
  /\ UNCHANGED <<hRoute, hPrompt, hSqlQuery, hSafeArg, hSafe, hCalls, hSqlOut,
                 hRows, hViz, hItems, hIndex, hResults, hSummary, apiKeySet>>
  /\ UNCHANGED <<hBody, nonHttpVars>>

\* The requests field of a batch: not an array, or an array of n items.
BatchSizes == 0..(MaxBatch + 1)

\* The type of a batch item; "null" is an item that is not an object.
ItemTypes == {"general", "data", "text", "other", "null"}

Result(index, success) == [index |-> index, success |-> success]

\* app.post('/api/analyze-batch'), up to the loop over the items.
BatchRequest(isArray, n) ==
  /\ hRoute = "none"
  /\ hBody' = [NoBody EXCEPT !.isArray = isArray, !.n = n]
  /\ hRoute' = "analyze-batch"
  /\ IF ~isArray \/ n = 0
     THEN Respond(400, "Requests array is required") /\ UNCHANGED hItems
     ELSE IF n > MaxBatch
     THEN Respond(400, "Maximum 5 requests allowed per batch") /\ UNCHANGED hItems
     ELSE /\ hItems' = n /\ hPc' = "batch_item" /\ UNCHANGED <<hStatus, hError>>
  /\ UNCHANGED <<hPrompt, hSqlQuery, hSafeArg, hSafe, hCalls, hSqlOut, hRows,
                 hViz, hIndex, hResults, hSummary, apiKeySet>>
  /\ UNCHANGED nonHttpVars

\* One turn of the loop, up to the await of the item's chat-completion call
\* or, when no call is sent, to the push of the item's result.
BatchItem(type, dataKind) ==
  /\ hPc = "batch_item" /\ hIndex < hItems
  /\ IF type \in {"general", "data", "text"}
        /\ AnalysisCallSent(IF type = "data" THEN dataKind ELSE "missing")
     THEN /\ hCalls' = Append(hCalls, Call("llm", type))
          /\ hPc' = "batch_llm" /\ UNCHANGED <<hIndex, hResults>>
     ELSE /\ hResults' = Append(hResults, Result(hIndex, type = "other"))
          /\ hIndex' = hIndex + 1
          /\ UNCHANGED <<hCalls, hPc>>
  /\ UNCHANGED <<hRoute, hPrompt, hSqlQuery, hSafeArg, hSafe, hStatus, hError,
                 hSqlOut, hRows, hViz, hItems, hSummary, apiKeySet>>
  /\ UNCHANGED <<hBody, nonHttpVars>>

\* The loop without the try/catch around each item: a failed call reaches
\* the handler's outer catch block.
BatchLlmSettles_noItemCatch(ok) ==
  /\ hPc = "batch_llm"
  /\ IF ok
     THEN /\ hResults' = Append(hResults, Result(hIndex, TRUE))
          /\ hIndex' = hIndex + 1
          /\ hPc' = "batch_item"
          /\ UNCHANGED <<hStatus, hError>>
     ELSE /\ Respond(500, FailureText("analyze-batch"))
          /\ UNCHANGED <<hResults, hIndex>>
  /\ UNCHANGED <<hRoute, hPrompt, hSqlQuery, hSafeArg, hSafe, hCalls,
                 hSqlOut, hRows, hViz, hItems, hSummary, apiKeySet>>
  /\ UNCHANGED <<hBody, nonHttpVars>>

\* The chat-completion call of a batch item settled: its result is pushed.
BatchLlmSettles(ok) ==
  /\ hPc = "batch_llm"
  /\ hResults' = Append(hResults, Result(hIndex, ok))
  /\ hIndex' = hIndex + 1
  /\ hPc' = "batch_item"
  /\ UNCHANGED <<hRoute, hPrompt, hSqlQuery, hSafeArg, hSafe, hCalls, hStatus,
                 hError, hSqlOut, hRows, hViz, hItems, hSummary, apiKeySet>>
  /\ UNCHANGED <<hBody, nonHttpVars>>

\* The loop is over: the summary and the results are sent.
BatchRespond ==
  /\ hPc = "batch_item" /\ hIndex = hItems
  /\ Respond(200, "")
  /\ hSummary' =
       [total |-> hItems,
        completed |-> Cardinality({i \in DOMAIN hResults : hResults[i].success}),
        failed |-> Cardinality({i \in DOMAIN hResults : ~hResults[i].success})]
  /\ UNCHANGED <<hRoute, hPrompt, hSqlQuery, hSafeArg, hSafe, hCalls, hSqlOut,
                 hRows, hViz, hItems, hIndex, hResults, apiKeySet>>
  /\ UNCHANGED <<hBody, nonHttpVars>>

HttpNext ==
  \/ \E prompt \in Prompts : QueryRequest(prompt)
  \/ QueryLlmFails
  \/ \E content \in LlmContents : QueryLlmReturns(content)
  \/ \E ok \in BOOLEAN : QueryDbConnected(ok)
  \/ QueryDbFails
  \/ \E recordset \in Recordsets : QueryDbReturns(recordset)
  \/ \E question \in Questions : AskRequest(question)
  \/ \E question \in Questions, dataKind \in DataKinds :
        AnalyzeRequest(question, dataKind)
  \/ \E text \in Questions : AnalyzeTextRequest(text)
  \/ \E ok \in BOOLEAN : AnalysisLlmSettles(ok)
  \/ \E isArray \in BOOLEAN, n \in BatchSizes : BatchRequest(isArray, n)
  \/ \E type \in ItemTypes, dataKind \in DataKinds : BatchItem(type, dataKind)
  \/ \E ok \in BOOLEAN : BatchLlmSettles(ok)
  \/ BatchRespond

(***************************************************************************)
(* SQLGenerator: the schema cache and generateSqlFromPrompt.  Calls of     *)
(* generateSqlFromPrompt follow one another on one instance; a call        *)
(* advances from one await to the next.                                    *)
(***************************************************************************)
MaxCalls == 2
MaxTime == 3

\* opts.schemaCacheTTL, in seconds.
schemaCacheTTL == 2

\* A schema object: for each table its columns; NullSchema is null.
NullSchema == [null |-> TRUE, tables |-> << >>]
Snapshot(tables) == [null |-> FALSE, tables |-> tables]

\* What INFORMATION_SCHEMA.COLUMNS describes, before and after a migration.
DbSchemas ==
  << << [table |-> "Sales", columns |-> <<"ID", "Gross">>] >>,
     << [table |-> "Sales", columns |-> <<"ID", "Gross", "Region">>] >> >>

\* Values under the schema key of the external cache: nothing, the JSON text
\* of a snapshot, or a text JSON.parse throws on.
RedisNil == [kind |-> "nil", schema |-> NullSchema, born |-> -1, exp |-> -1]
RedisJson(schema, born, exp) ==
  [kind |-> "json", schema |-> schema, born |-> born, exp |-> exp]
RedisCorrupt(exp) ==
  [kind |-> "corrupt", schema |-> NullSchema, born |-> -1, exp |-> exp]

\* The text injected after a statement.
Injection == "; DROP TABLE Users; --"

\* What the llmClient response carries at choices[0].message.content.
GenContents ==
  {Undefined, Null, Str(""), Str(" \n"),
   Str("SELECT Gross FROM Sales"), Str("select Region from Sales ;\n"),
   Str("SELECT ID FROM Sales ; ;"),
   Str("SELECT x FROM Sales"), Str("SELECT GETDATE() FROM Sales"),
   Str("SELECT Gross FROM Sales" \o Injection),
   Str("select Region from Sales" \o Injection),
   Str("DELETE FROM Sales")}

AllowedTokens ==
  {"SELECT", "SUM", "AVG", "MIN", "MAX", "COUNT", "FROM", "WHERE", "AND", "OR",
   "ON", "JOIN", "LEFT", "RIGHT", "INNER", "OUTER", "GROUP", "ORDER", "BY", "AS",
   "CAST", "REPLACE", "DECIMAL", "TOP", "WITH", "IS", "NULL", "NOT", "IN",
   "BETWEEN", "LIKE", "CASE", "WHEN", "THEN", "ELSE", "END", "HAVING", "LIMIT",
   "DISTINCT", "COALESCE"}

\* [A-Za-z_]
IsIdentStart(c) == c \in UpperChars \/ c \in LowerChars \/ c = "_"

\* sqlText.match(/[A-Za-z_][A-Za-z0-9_]+/g), upper-cased, as a set.
RECURSIVE identifierTokens(_)
identifierTokens(s) ==
  IF Len(s) < 2 THEN {}
  ELSE IF IsIdentStart(CharAt(s, 1)) /\ IsWordChar(CharAt(s, 2))
       THEN LET rest == skipWord(s)
            IN  {toUpperCase(SubSeq(s, 1, Len(s) - Len(rest)))}
                  \cup identifierTokens(rest)
       ELSE identifierTokens(Tail(s))

\* The table and column names of a schema object, upper-cased.
knownTokens(schema) ==
  UNION {{toUpperCase(schema.tables[i].table)}
           \cup {toUpperCase(schema.tables[i].columns[j]) :
                   j \in DOMAIN schema.tables[i].columns} :
         i \in DOMAIN schema.tables}

\* checkSqlAgainstSchema once the schema object is at hand.
sqlMatchesSchema(sqlText, schema) ==
  IF schema.null THEN TRUE
  ELSE \A tk \in identifierTokens(sqlText) :
         tk \in AllowedTokens \/ tk \in knownTokens(schema)

Resolved(sql) == [kind |-> "resolved", value |-> sql]
Rejected == [kind |-> "rejected", value |-> ""]
NoResult == [kind |-> "none", value |-> ""]

GenIdle ==
  /\ gDb = FALSE /\ gRedis = FALSE /\ gSchema = NullSchema /\ gFetchedAt = -1
  /\ gBorn = -1
  /\ now = 0 /\ redisVal = RedisNil /\ dbSchema = 1 /\ gPool = FALSE
  /\ gCalls = 0 /\ gPc = "idle" /\ gSite = 1 /\ gEnforce = TRUE
  /\ gLocal = NullSchema /\ gLlm = "none" /\ gContent = Undefined
  /\ gSqlText = "" /\ gResult = NoResult

\* The constructor, with or without dbConfig and redisConfig; the external
\* cache may already hold a value another process stored with the same
\* expiry, at the moment it read the database.
GenInit ==
  /\ gDb \in BOOLEAN /\ gRedis \in BOOLEAN
  /\ gSchema = NullSchema /\ gFetchedAt = -1 /\ gBorn = -1
  /\ now = 0 /\ dbSchema = 1 /\ gPool = FALSE
  /\ redisVal \in
       (IF gRedis
        THEN {RedisNil, RedisCorrupt(schemaCacheTTL)}
               \cup {RedisJson(Snapshot(DbSchemas[1]), exp - schemaCacheTTL, exp) :
                       exp \in 1..schemaCacheTTL}
        ELSE {RedisNil})
  /\ gCalls = 0 /\ gPc = "idle" /\ gSite = 1 /\ gEnforce = TRUE
  /\ gLocal = NullSchema /\ gLlm = "none" /\ gContent = Undefined
  /\ gSqlText = "" /\ gResult = NoResult

\* The memory cache holds a snapshot younger than the TTL.
MemoryFresh == ~gSchema.null /\ (now - gFetchedAt) < schemaCacheTTL

\* Steps 4 and 5 of generateSqlFromPrompt for each response content, and
\* checkSqlAgainstSchema for each statement and schema object, as tables.
ResponseText == [content \in GenContents |-> OrEmptyTrim(content)]

ResponseSafe ==
  [content \in GenContents |-> validateSqlSafety(Str(ResponseText[content]))]

SchemaObjects ==
  {NullSchema} \cup {Snapshot(DbSchemas[i]) : i \in DOMAIN DbSchemas}

SchemaCheck ==
  [sqlText \in {ResponseText[content] : content \in GenContents} |->
     [schema \in SchemaObjects |-> sqlMatchesSchema(sqlText, schema)]]

\* _getCachedSchema returned schema, or threw, to the call site: step 2
\* catches and goes on to the llmClient call; the schema check decides the
\* result of generateSqlFromPrompt, and a throw there rejects it.
AfterLookup(site, threw, schema, sqlText) ==
  IF site = 1
  THEN gPc' = "llm" /\ UNCHANGED gResult
  ELSE /\ gPc' = "done"
       /\ gResult' =
            IF threw THEN Rejected
            ELSE IF SchemaCheck[sqlText][schema]
                 THEN Resolved(trimTrailingSemicolons(sqlText))
                 ELSE Resolved(FallbackSql)

\* The external cache holds an entry that has not expired.
RedisLive == redisVal.kind # "nil" /\ now < redisVal.exp

\* _getCachedSchema up to its first await, or to its return.
LookupEnter(site, sqlText) ==
  IF MemoryFresh THEN AfterLookup(site, FALSE, gSchema, sqlText)
  ELSE IF gRedis THEN gPc' = "redis_get" /\ UNCHANGED gResult
  ELSE IF gDb THEN gPc' = "db_connect" /\ UNCHANGED gResult
  ELSE AfterLookup(site, FALSE, gSchema, sqlText)

\* generateSqlFromPrompt is called: the prompt is normalised and the first
\* schema lookup begins.
GenStart(enforceSchemaCheck) ==
  /\ gPc \in {"idle", "done"} /\ gCalls < MaxCalls
  /\ gCalls' = gCalls + 1
  /\ gEnforce' = enforceSchemaCheck
  /\ gSite' = 1
  /\ gLlm' = "none" /\ gContent' = Undefined /\ gSqlText' = ""
  /\ gResult' = NoResult
  /\ gPc' = IF MemoryFresh \/ (~gRedis /\ ~gDb) THEN "llm"
            ELSE IF gRedis THEN "redis_get" ELSE "db_connect"
  /\ UNCHANGED <<gDb, gRedis, gSchema, gFetchedAt, gBorn, now, redisVal, dbSchema,
                 gPool, gLocal>>
  /\ UNCHANGED nonGenVars

\* this._redis.get(key) settled.
RedisGetSettles(ok) ==
  /\ gPc = "redis_get"
  /\ IF ~ok
     THEN AfterLookup(gSite, TRUE, NullSchema, gSqlText) /\ UNCHANGED <<gSchema, gFetchedAt, gBorn>>
     ELSE IF RedisLive /\ redisVal.kind = "json"
     THEN /\ gSchema' = redisVal.schema
          /\ gFetchedAt' = now
          /\ gBorn' = redisVal.born
          /\ AfterLookup(gSite, FALSE, redisVal.schema, gSqlText)
     ELSE IF gDb
     THEN gPc' = "db_connect" /\ UNCHANGED <<gSchema, gFetchedAt, gBorn, gResult>>
     ELSE AfterLookup(gSite, FALSE, gSchema, gSqlText) /\ UNCHANGED <<gSchema, gFetchedAt, gBorn>>
  /\ UNCHANGED <<gDb, gRedis, now, redisVal, dbSchema, gPool, gCalls, gSite,
                 gEnforce, gLocal, gLlm, gContent, gSqlText>>
  /\ UNCHANGED nonGenVars

\* mssql.connect of refreshSchemaFromDb settled.
DbConnectSettles(ok) ==
  /\ gPc = "db_connect"
  /\ IF ok
     THEN gPool' = TRUE /\ gPc' = "db_query" /\ UNCHANGED gResult
     ELSE AfterLookup(gSite, TRUE, NullSchema, gSqlText) /\ UNCHANGED gPool
  /\ UNCHANGED <<gDb, gRedis, gSchema, gFetchedAt, gBorn, now, redisVal, dbSchema,
                 gCalls, gSite, gEnforce, gLocal, gLlm, gContent, gSqlText>>
  /\ UNCHANGED nonGenVars

\* The INFORMATION_SCHEMA query settled: the snapshot is built and stored in
\* memory, then written to the external cache when there is one.
DbQuerySettles(ok) ==
  /\ gPc = "db_query"
  /\ IF ~ok
     THEN /\ gPool' = FALSE
          /\ AfterLookup(gSite, TRUE, NullSchema, gSqlText)
          /\ UNCHANGED <<gSchema, gFetchedAt, gBorn, gLocal>>
     ELSE LET schema == Snapshot(DbSchemas[dbSchema])
          IN  /\ gLocal' = schema
              /\ gSchema' = schema
              /\ gFetchedAt' = now
              /\ gBorn' = now
              /\ IF gRedis
                 THEN gPc' = "redis_set" /\ UNCHANGED <<gPool, gResult>>
                 ELSE gPool' = FALSE /\ AfterLookup(gSite, FALSE, schema, gSqlText)
  /\ UNCHANGED <<gDb, gRedis, now, redisVal, dbSchema, gCalls, gSite, gEnforce,
                 gLlm, gContent, gSqlText>>
  /\ UNCHANGED nonGenVars

\* this._redis.set(...) settled; the pool is closed either way.
RedisSetSettles(ok) ==
  /\ gPc = "redis_set"
  /\ gPool' = FALSE
  /\ IF ok
     THEN /\ redisVal' = RedisJson(gLocal, gBorn, now + schemaCacheTTL)
          /\ AfterLookup(gSite, FALSE, gLocal, gSqlText)
     ELSE UNCHANGED redisVal /\ AfterLookup(gSite, TRUE, NullSchema, gSqlText)
  /\ UNCHANGED <<gDb, gRedis, gSchema, gFetchedAt, gBorn, now, dbSchema, gCalls, gSite,
                 gEnforce, gLocal, gLlm, gContent, gSqlText>>
  /\ UNCHANGED nonGenVars

\* The llmClient call threw: the fallback is returned.
LlmThrows ==
  /\ gPc = "llm"
  /\ gLlm' = "threw"
  /\ gPc' = "done" /\ gResult' = Resolved(FallbackSql)
  /\ UNCHANGED <<gDb, gRedis, gSchema, gFetchedAt, gBorn, now, redisVal, dbSchema,
                 gPool, gCalls, gSite, gEnforce, gLocal, gContent, gSqlText>>
  /\ UNCHANGED nonGenVars

\* generateSqlFromPrompt returning the empty text instead of the fallback.
LlmReturns_emptyReturned(content) ==
  /\ gPc = "llm"
  /\ gLlm' = "returned"
  /\ gContent' = content
  /\ LET sqlText == ResponseText[content]
     IN  /\ gSqlText' = sqlText
         /\ IF sqlText = ""
            THEN gPc' = "done" /\ gResult' = Resolved(sqlText) /\ UNCHANGED gSite
            ELSE IF ~ResponseSafe[content]
            THEN gPc' = "done" /\ gResult' = Resolved(FallbackSql) /\ UNCHANGED gSite
            ELSE IF gEnforce
            THEN gSite' = 2 /\ LookupEnter(2, sqlText)
            ELSE /\ gPc' = "done" /\ UNCHANGED gSite
                 /\ gResult' = Resolved(trimTrailingSemicolons(sqlText))
  /\ UNCHANGED <<gDb, gRedis, gSchema, gFetchedAt, gBorn, now, redisVal, dbSchema,
                 gPool, gCalls, gEnforce, gLocal>>
  /\ UNCHANGED nonGenVars

\* The llmClient call returned: steps 4 to 7, up to the await of the schema
\* check when it is enforced and the memory cache is not fresh.
LlmReturns(content) ==
  /\ gPc = "llm"
  /\ gLlm' = "returned"
  /\ gContent' = content
  /\ LET sqlText == ResponseText[content]
     IN  /\ gSqlText' = sqlText
         /\ IF sqlText = ""
            THEN gPc' = "done" /\ gResult' = Resolved(FallbackSql) /\ UNCHANGED gSite
            ELSE IF ~ResponseSafe[content]
            THEN gPc' = "done" /\ gResult' = Resolved(FallbackSql) /\ UNCHANGED gSite
            ELSE IF gEnforce
            THEN gSite' = 2 /\ LookupEnter(2, sqlText)
            ELSE /\ gPc' = "done" /\ UNCHANGED gSite
                 /\ gResult' = Resolved(trimTrailingSemicolons(sqlText))
  /\ UNCHANGED <<gDb, gRedis, gSchema, gFetchedAt, gBorn, now, redisVal, dbSchema,
                 gPool, gCalls, gEnforce, gLocal>>
  /\ UNCHANGED nonGenVars

\* A second passes.
Tick ==
  /\ now < MaxTime
  /\ now' = now + 1
  /\ UNCHANGED <<gDb, gRedis, gSchema, gFetchedAt, gBorn, redisVal, dbSchema, gPool,
                 gCalls, gPc, gSite, gEnforce, gLocal, gLlm, gContent, gSqlText,
                 gResult>>
  /\ UNCHANGED nonGenVars

\* The entry of the external cache is gone: it expired, or was evicted or
\* deleted before its time.
RedisExpires ==
  /\ gRedis /\ redisVal # RedisNil
  /\ redisVal' = RedisNil
  /\ UNCHANGED <<gDb, gRedis, gSchema, gFetchedAt, gBorn, now, dbSchema, gPool,
                 gCalls, gPc, gSite, gEnforce, gLocal, gLlm, gContent, gSqlText,
                 gResult>>
  /\ UNCHANGED nonGenVars

\* A column is added to the database.
DbMigrates ==
  /\ gDb /\ dbSchema < Len(DbSchemas)
  /\ dbSchema' = dbSchema + 1
  /\ UNCHANGED <<gDb, gRedis, gSchema, gFetchedAt, gBorn, now, redisVal, gPool,
                 gCalls, gPc, gSite, gEnforce, gLocal, gLlm, gContent, gSqlText,
                 gResult>>
  /\ UNCHANGED nonGenVars

GenNext ==
  \/ \E enforceSchemaCheck \in BOOLEAN : GenStart(enforceSchemaCheck)
  \/ \E ok \in BOOLEAN : RedisGetSettles(ok)
  \/ \E ok \in BOOLEAN : DbConnectSettles(ok)
  \/ \E ok \in BOOLEAN : DbQuerySettles(ok)
  \/ \E ok \in BOOLEAN : RedisSetSettles(ok)
  \/ LlmThrows
  \/ \E content \in GenContents : LlmReturns(content)
  \/ Tick
  \/ RedisExpires
  \/ DbMigrates

(***************************************************************************)
(* Concurrent callers of the schema cache of one SQLGenerator.  Each caller *)
(* makes one call, _getCachedSchema or refreshSchemaFromDb, and advances    *)
(* from one await to the next; the code between two awaits is one step.     *)
(***************************************************************************)
NReaders == 2

Readers == 1..NReaders

\* The variables of a generateSqlFromPrompt call, which these callers do
\* not use.
genCallVars ==
  <<gPool, gCalls, gPc, gSite, gEnforce, gLocal, gLlm, gContent, gSqlText,
    gResult>>

NoLocal == [schema |-> NullSchema, born |-> -1]

\* How a call ended: how is "memory", "redis" or "db" for a snapshot from
\* that place, "kept" for the snapshot returned without dbConfig, "null"
\* for the null result, "threw" for an error, and then at is the await (or
\* "no_db") that failed; schema is the value returned and stamp the value
\* of _schemaFetchedAt at the return.
Outcome(how, at, schema, stamp) ==
  [how |-> how, at |-> at, schema |-> schema, stamp |-> stamp]
NoOutcome == Outcome("none", "", NullSchema, -1)
Threw(at) == Outcome("threw", at, NullSchema, -1)

CacheIdle ==
  /\ cPc = [r \in Readers |-> "idle"]
  /\ cLocal = [r \in Readers |-> NoLocal]
  /\ cPool = [r \in Readers |-> FALSE]
  /\ cGot = [r \in Readers |-> NoOutcome]
  /\ cWriter = 0

\* One SQLGenerator, with or without dbConfig and redisConfig, just
\* constructed.
CacheInit ==
  /\ gDb \in BOOLEAN /\ gRedis \in BOOLEAN
  /\ gSchema = NullSchema /\ gFetchedAt = -1 /\ gBorn = -1
  /\ now = 0 /\ dbSchema = 1 /\ gPool = FALSE
  /\ redisVal \in
       (IF gRedis
        THEN {RedisNil, RedisCorrupt(schemaCacheTTL),
              RedisJson(Snapshot(DbSchemas[1]), 0, schemaCacheTTL)}
        ELSE {RedisNil})
  /\ gCalls = 0 /\ gPc = "idle" /\ gSite = 1 /\ gEnforce = TRUE
  /\ gLocal = NullSchema /\ gLlm = "none" /\ gContent = Undefined
  /\ gSqlText = "" /\ gResult = NoResult
  /\ CacheIdle

\* The end of _getCachedSchema without dbConfig.
KeptOrNull ==
  IF gSchema.null THEN Outcome("null", "", NullSchema, gFetchedAt)
  ELSE Outcome("kept", "", gSchema, gFetchedAt)

\* Caller r calls _getCachedSchema: it returns the fresh memory snapshot,
\* or goes to its first await.
CacheLookup(r) ==
  /\ cPc[r] = "idle"
  /\ IF MemoryFresh
     THEN /\ cPc' = [cPc EXCEPT ![r] = "done"]
          /\ cGot' = [cGot EXCEPT ![r] = Outcome("memory", "", gSchema, gFetchedAt)]
     ELSE IF gRedis
     THEN cPc' = [cPc EXCEPT ![r] = "redis_get"] /\ UNCHANGED cGot
     ELSE IF gDb
     THEN cPc' = [cPc EXCEPT ![r] = "db_connect"] /\ UNCHANGED cGot
     ELSE /\ cPc' = [cPc EXCEPT ![r] = "done"]
          /\ cGot' = [cGot EXCEPT ![r] = KeptOrNull]
  /\ UNCHANGED <<cLocal, cPool, cWriter>>
  /\ UNCHANGED <<gDb, gRedis, gSchema, gFetchedAt, gBorn, now, redisVal, dbSchema>>
  /\ UNCHANGED genCallVars
  /\ UNCHANGED nonCacheVars

\* Caller r calls refreshSchemaFromDb itself: it throws without dbConfig,
\* and goes to mssql.connect otherwise.
CacheRefresh(r) ==
  /\ cPc[r] = "idle"
  /\ IF gDb
     THEN cPc' = [cPc EXCEPT ![r] = "db_connect"] /\ UNCHANGED cGot
     ELSE /\ cPc' = [cPc EXCEPT ![r] = "done"]
          /\ cGot' = [cGot EXCEPT ![r] = Threw("no_db")]
  /\ UNCHANGED <<cLocal, cPool, cWriter>>
  /\ UNCHANGED <<gDb, gRedis, gSchema, gFetchedAt, gBorn, now, redisVal, dbSchema>>
  /\ UNCHANGED genCallVars
  /\ UNCHANGED nonCacheVars

\* this._redis.get(key) of caller r settled.
CacheRedisGetSettles(r, ok) ==
  /\ cPc[r] = "redis_get"
  /\ IF ~ok
     THEN /\ cPc' = [cPc EXCEPT ![r] = "done"]
          /\ cGot' = [cGot EXCEPT ![r] = Threw("redis_get")]
          /\ UNCHANGED <<gSchema, gFetchedAt, gBorn, cLocal, cWriter>>
     ELSE IF RedisLive /\ redisVal.kind = "json"
     THEN /\ cLocal' = [cLocal EXCEPT ![r] =
                          [schema |-> redisVal.schema, born |-> redisVal.born]]
          /\ gSchema' = redisVal.schema
          /\ gFetchedAt' = now
          /\ gBorn' = redisVal.born
          /\ cWriter' = r
          /\ cPc' = [cPc EXCEPT ![r] = "done"]
          /\ cGot' = [cGot EXCEPT ![r] = Outcome("redis", "", redisVal.schema, now)]
     ELSE IF gDb
     THEN /\ cPc' = [cPc EXCEPT ![r] = "db_connect"]
          /\ UNCHANGED <<gSchema, gFetchedAt, gBorn, cLocal, cWriter, cGot>>
     ELSE /\ cPc' = [cPc EXCEPT ![r] = "done"]
          /\ cGot' = [cGot EXCEPT ![r] = KeptOrNull]
          /\ UNCHANGED <<gSchema, gFetchedAt, gBorn, cLocal, cWriter>>
  /\ UNCHANGED cPool
  /\ UNCHANGED <<gDb, gRedis, now, redisVal, dbSchema>>
  /\ UNCHANGED genCallVars
  /\ UNCHANGED nonCacheVars

\* mssql.connect of caller r settled.
CacheDbConnectSettles(r, ok) ==
  /\ cPc[r] = "db_connect"
  /\ IF ok
     THEN /\ cPool' = [cPool EXCEPT ![r] = TRUE]
          /\ cPc' = [cPc EXCEPT ![r] = "db_query"]
          /\ UNCHANGED cGot
     ELSE /\ cPc' = [cPc EXCEPT ![r] = "done"]
          /\ cGot' = [cGot EXCEPT ![r] = Threw("db_connect")]
          /\ UNCHANGED cPool
  /\ UNCHANGED <<cLocal, cWriter>>
  /\ UNCHANGED <<gDb, gRedis, gSchema, gFetchedAt, gBorn, now, redisVal, dbSchema>>
  /\ UNCHANGED genCallVars
  /\ UNCHANGED nonCacheVars

\* A refresh that assigns this._schema and leaves this._schemaFetchedAt.
CacheDbQuerySettles_noStamp(r, ok) ==
  /\ cPc[r] = "db_query"
  /\ IF ~ok
     THEN /\ cPool' = [cPool EXCEPT ![r] = FALSE]
          /\ cPc' = [cPc EXCEPT ![r] = "done"]
          /\ cGot' = [cGot EXCEPT ![r] = Threw("db_query")]
          /\ UNCHANGED <<gSchema, gFetchedAt, gBorn, cLocal, cWriter>>
     ELSE LET schema == Snapshot(DbSchemas[dbSchema])
          IN  /\ cLocal' = [cLocal EXCEPT ![r] = [schema |-> schema, born |-> now]]
              /\ gSchema' = schema
              /\ UNCHANGED gFetchedAt
              /\ gBorn' = now
              /\ cWriter' = r
              /\ IF gRedis
                 THEN /\ cPc' = [cPc EXCEPT ![r] = "redis_set"]
                      /\ UNCHANGED <<cPool, cGot>>
                 ELSE /\ cPool' = [cPool EXCEPT ![r] = FALSE]
                      /\ cPc' = [cPc EXCEPT ![r] = "done"]
                      /\ cGot' = [cGot EXCEPT ![r] = Outcome("db", "", schema, gFetchedAt)]
  /\ UNCHANGED <<gDb, gRedis, now, redisVal, dbSchema>>
  /\ UNCHANGED genCallVars
  /\ UNCHANGED nonCacheVars

\* A refresh whose failing query leaves the pool open.
CacheDbQuerySettles_noFinally(r, ok) ==
  /\ cPc[r] = "db_query"
  /\ IF ~ok
     THEN /\ cPc' = [cPc EXCEPT ![r] = "done"]
          /\ cGot' = [cGot EXCEPT ![r] = Threw("db_query")]
          /\ UNCHANGED <<gSchema, gFetchedAt, gBorn, cLocal, cWriter, cPool>>
     ELSE LET schema == Snapshot(DbSchemas[dbSchema])
          IN  /\ cLocal' = [cLocal EXCEPT ![r] = [schema |-> schema, born |-> now]]
              /\ gSchema' = schema
              /\ gFetchedAt' = now
              /\ gBorn' = now
              /\ cWriter' = r
              /\ IF gRedis
                 THEN /\ cPc' = [cPc EXCEPT ![r] = "redis_set"]
                      /\ UNCHANGED <<cPool, cGot>>
                 ELSE /\ cPool' = [cPool EXCEPT ![r] = FALSE]
                      /\ cPc' = [cPc EXCEPT ![r] = "done"]
                      /\ cGot' = [cGot EXCEPT ![r] = Outcome("db", "", schema, now)]
  /\ UNCHANGED <<gDb, gRedis, now, redisVal, dbSchema>>
  /\ UNCHANGED genCallVars
  /\ UNCHANGED nonCacheVars

\* The INFORMATION_SCHEMA query of caller r settled: on success the snapshot
\* is built from the rows and assigned, with the time, to the memory cache
\* in the same step; on failure the pool is closed and the error goes on.
CacheDbQuerySettles(r, ok) ==
  /\ cPc[r] = "db_query"
  /\ IF ~ok
     THEN /\ cPool' = [cPool EXCEPT ![r] = FALSE]
          /\ cPc' = [cPc EXCEPT ![r] = "done"]
          /\ cGot' = [cGot EXCEPT ![r] = Threw("db_query")]
          /\ UNCHANGED <<gSchema, gFetchedAt, gBorn, cLocal, cWriter>>
     ELSE LET schema == Snapshot(DbSchemas[dbSchema])
          IN  /\ cLocal' = [cLocal EXCEPT ![r] = [schema |-> schema, born |-> now]]
              /\ gSchema' = schema
              /\ gFetchedAt' = now
              /\ gBorn' = now
              /\ cWriter' = r
              /\ IF gRedis
                 THEN /\ cPc' = [cPc EXCEPT ![r] = "redis_set"]
                      /\ UNCHANGED <<cPool, cGot>>
                 ELSE /\ cPool' = [cPool EXCEPT ![r] = FALSE]
                      /\ cPc' = [cPc EXCEPT ![r] = "done"]
                      /\ cGot' = [cGot EXCEPT ![r] = Outcome("db", "", schema, now)]
  /\ UNCHANGED <<gDb, gRedis, now, redisVal, dbSchema>>
  /\ UNCHANGED genCallVars
  /\ UNCHANGED nonCacheVars

\* this._redis.set(...) of caller r settled; the pool is closed either way.
CacheRedisSetSettles(r, ok) ==
  /\ cPc[r] = "redis_set"
  /\ cPool' = [cPool EXCEPT ![r] = FALSE]
  /\ cPc' = [cPc EXCEPT ![r] = "done"]
  /\ IF ok
     THEN /\ redisVal' = RedisJson(cLocal[r].schema, cLocal[r].born,
                                   now + schemaCacheTTL)
          /\ cGot' = [cGot EXCEPT ![r] = Outcome("db", "", cLocal[r].schema, gFetchedAt)]
     ELSE /\ UNCHANGED redisVal
          /\ cGot' = [cGot EXCEPT ![r] = Threw("redis_set")]
  /\ UNCHANGED <<cLocal, cWriter>>
  /\ UNCHANGED <<gDb, gRedis, gSchema, gFetchedAt, gBorn, now, dbSchema>>
  /\ UNCHANGED genCallVars
  /\ UNCHANGED nonCacheVars

\* The clock, the expiry of the external cache and a migration go on as in
\* the sequential runs.
CacheNext ==
  \/ \E r \in Readers : CacheLookup(r)
  \/ \E r \in Readers : CacheRefresh(r)
  \/ \E r \in Readers, ok \in BOOLEAN : CacheRedisGetSettles(r, ok)
  \/ \E r \in Readers, ok \in BOOLEAN : CacheDbConnectSettles(r, ok)
  \/ \E r \in Readers, ok \in BOOLEAN : CacheDbQuerySettles(r, ok)
  \/ \E r \in Readers, ok \in BOOLEAN : CacheRedisSetSettles(r, ok)
  \/ Tick
  \/ RedisExpires
  \/ DbMigrates

(***************************************************************************)
(* Validator runs: a candidate text is assembled from fragments, then the  *)
(* validators are applied to it.                                           *)
(***************************************************************************)
MaxFrags == 2

\* Openings of a candidate text.
Heads ==
  {"SELECT a", "select *", " Select 1", "WITH c", "show x", "",
   Fence \o "sql\nSELECT 1", Fence \o "SELECT 1"}

\* Fragments a candidate text is continued with.
Frags ==
  {" ", "\t", "\n", ";", "(", " FROM t", " LastUpdate", " --",
   Fence, "\n" \o Fence,
   " insert", " Update", " delete", " drop", " DROP", " alter", " create",
   " truncate", " exec", " merge", " grant", " revoke"}

NoStyle == [tag |-> "", sep |-> "", close |-> ""]

\* Code-fence wrappers: an optional language tag, then a newline, a blank or
\* nothing before the statement (nothing only when there is no tag), and a
\* closing fence on the same or on its own line.
FenceStyles ==
  {st \in [tag : {"", "sql"}, sep : {"\n", " ", ""}, close : {"\n", ""}] :
     st.tag = "" \/ st.sep # ""}

wrapInFence(st, s) == Fence \o st.tag \o st.sep \o s \o st.close \o Fence

TextIdle ==
  /\ tPhase = "idle" /\ tInput = Undefined /\ tParts = 0
  /\ tSafe = FALSE /\ tStrict = FALSE /\ tClean = "" /\ tClean2 = ""
  /\ tCleanSafe = FALSE /\ tStyle = NoStyle /\ tFenced = ""

TextInit ==
  /\ HttpIdle /\ apiKeySet = TRUE /\ GenIdle /\ PromptIdle /\ CacheIdle
  /\ tPhase = "build"
  /\ tInput \in {Undefined, Null} \cup {Str(h) : h \in Heads}
  /\ tParts = 0
  /\ tSafe = FALSE /\ tStrict = FALSE /\ tClean = "" /\ tClean2 = ""
  /\ tCleanSafe = FALSE /\ tStyle = NoStyle /\ tFenced = ""

AppendFragment(f) ==
  /\ tPhase = "build" /\ tInput.t = "string" /\ tParts < MaxFrags
  /\ tInput' = Str(tInput.v \o f)
  /\ tParts' = tParts + 1
  /\ UNCHANGED <<tPhase, tSafe, tStrict, tClean, tClean2, tCleanSafe, tStyle, tFenced>>
  /\ UNCHANGED nonTextVars

Validate ==
  /\ tPhase = "build"
  /\ tPhase' = "checked"
  /\ tSafe' = isSafeSelect(tInput)
  /\ tStrict' = validateSqlSafety(tInput)
  /\ tClean' = validateAndCleanSql(tInput)
  /\ UNCHANGED <<tInput, tParts, tClean2, tCleanSafe, tStyle, tFenced>>
  /\ UNCHANGED nonTextVars

Revalidate ==
  /\ tPhase = "checked"
  /\ tPhase' = "recleaned"
  /\ tClean2' = validateAndCleanSql(Str(tClean))
  /\ tCleanSafe' = isSafeSelect(Str(tClean))
  /\ UNCHANGED <<tInput, tParts, tSafe, tStrict, tClean, tStyle, tFenced>>
  /\ UNCHANGED nonTextVars

ValidateFenced(st) ==
  /\ tPhase = "checked" /\ tInput = Str(tClean)
  /\ tPhase' = "fenced"
  /\ tStyle' = st
  /\ tFenced' = validateAndCleanSql(Str(wrapInFence(st, tClean)))
  /\ UNCHANGED <<tInput, tParts, tSafe, tStrict, tClean, tClean2, tCleanSafe>>
  /\ UNCHANGED nonTextVars

TextNext ==
  \/ \E f \in Frags : AppendFragment(f)
  \/ Validate
  \/ Revalidate
  \/ \E st \in FenceStyles : ValidateFenced(st)

(***************************************************************************)
(* Prompt analysis runs: a prompt is put together from a request text and  *)
(* further phrases, then analyzeUserPrompt is applied to it.               *)
(***************************************************************************)
MaxPhrases == 2

PromptHeads ==
  {"Show total gross by dealership for", "count deals", "show inventory",
   "vehicles in stock", "sales by dealer in the east", "list",
   "sold next month"}

PromptPhrases ==
  {" October 2025", " 2025 october", " this month", " Q1 2025",
   " January 9, 2026", " from January 1 to January 15 2026",
   " warranty contract", " day before yesterday"}

PromptInit ==
  /\ TextIdle /\ GenIdle /\ CacheIdle /\ HttpIdle /\ apiKeySet = TRUE
  /\ pPhase = "typing" /\ pPrompt \in PromptHeads /\ pParts = 0
  /\ pAnalysis = Null

AppendPhrase(f) ==
  /\ pPhase = "typing" /\ pParts < MaxPhrases
  /\ pPrompt' = pPrompt \o f
  /\ pParts' = pParts + 1
  /\ UNCHANGED <<pPhase, pAnalysis>>
  /\ UNCHANGED nonPromptVars

Analyze ==
  /\ pPhase = "typing"
  /\ pAnalysis' = analyzeUserPrompt(pPrompt)
  /\ pPhase' = "analyzed"
  /\ UNCHANGED <<pPrompt, pParts>>
  /\ UNCHANGED nonPromptVars

PromptNext ==
  \/ \E f \in PromptPhrases : AppendPhrase(f)
  \/ Analyze

SpecText == TextInit /\ [][TextNext]_vars

Init ==
  /\ TextIdle /\ GenIdle /\ PromptIdle /\ CacheIdle /\ HttpIdle
  /\ apiKeySet \in BOOLEAN

Next == HttpNext

Spec == Init /\ [][Next]_vars

GenSpecInit ==
  /\ GenInit /\ HttpIdle /\ apiKeySet = TRUE /\ TextIdle /\ PromptIdle
  /\ CacheIdle

SpecGen == GenSpecInit /\ [][GenNext]_vars

SpecPrompt == PromptInit /\ [][PromptNext]_vars

CacheSpecInit == CacheInit /\ HttpIdle /\ apiKeySet = TRUE /\ TextIdle /\ PromptIdle

SpecCache == CacheSpecInit /\ [][CacheNext]_vars

(***************************************************************************)
(* Properties of SQLGenerator.generateSqlFromPrompt (checked under SpecGen)*)
(***************************************************************************)
\* The llmClient returned a response whose content is missing, null, empty
\* or white space only.
BlankContent == gLlm = "returned" /\ (Falsy(gContent) \/ trim(gContent.v) = "")

\* C7: when the content of the language model's response is missing, null,
\* empty or white space only, generateSqlFromPrompt returns exactly the
\* statement SELECT TOP (0) * FROM SalesReport_Form_Input, as
\* validateAndCleanSql does for the trimmed content.
C7_BlankContentGivesFallback ==
  (gPc = "done" /\ BlankContent) =>
    /\ gResult = Resolved("SELECT TOP (0) * FROM SalesReport_Form_Input")
    /\ validateAndCleanSql(OptTrim(gContent))
         = "SELECT TOP (0) * FROM SalesReport_Form_Input"

\* A call that ended on a response with white space only as its content.
C7_Witness ==
  /\ gPc = "done" /\ gLlm = "returned" /\ gContent = Str(" \n")
  /\ gResult = Resolved(FallbackSql)

\* C8: generateSqlFromPrompt never rejects: whatever the llmClient and the
\* schema lookups do, it resolves to a statement.
C8_NeverRejects == gPc = "done" => gResult.kind = "resolved"

\* The llmClient returned a statement that both validators accept, followed
\* by the injected text.
InjectedContent ==
  /\ gLlm = "returned" /\ gContent.t = "string"
  /\ endsWith(gContent.v, Injection)
  /\ LET stmt == Str(SubSeq(gContent.v, 1, Len(gContent.v) - Len(Injection)))
     IN  isSafeSelect(stmt) /\ validateSqlSafety(stmt)

\* C9: a valid SELECT followed by '; DROP TABLE Users; --' is rejected by
\* isSafeSelect and by validateSqlSafety, validateAndCleanSql returns the
\* fallback for it, and generateSqlFromPrompt returns the fallback.
C9_InjectionGivesFallback ==
  (gPc = "done" /\ InjectedContent) =>
    /\ isSafeSelect(gContent) = FALSE
    /\ validateAndCleanSql(gContent) = FallbackSql
    /\ validateSqlSafety(gContent) = FALSE
    /\ gResult = Resolved(FallbackSql)

\* A call that ended on a response carrying the injected text.
C9_Witness ==
  gPc = "done" /\ InjectedContent /\ gResult = Resolved(FallbackSql)

(***************************************************************************)
(* Properties of the request handlers (checked under Spec)                 *)
(***************************************************************************)
DatabaseCalls ==
  {i \in DOMAIN hCalls : hCalls[i].kind \in {"db_connect", "db_query"}}

\* C1: in the /query handler a statement is sent to the database only after
\* isSafeSelect returned true for that statement; when isSafeSelect returns
\* false the response is a 400 carrying the rejected SQL and no database
\* call is made.
C1_DatabaseOnlyAfterSafe ==
  hRoute = "query" =>
    /\ \A i \in DOMAIN hCalls :
         hCalls[i].kind = "db_query" =>
           hSafe = "true" /\ hSafeArg = hCalls[i].arg
    /\ DatabaseCalls # {} => hSafe = "true"
    /\ hSafe = "false" =>
         hStatus = 400 /\ hSqlOut = Str(hSafeArg) /\ DatabaseCalls = {}

\* A /query request whose generated statement the safety check rejected.
C1_Witness ==
  hRoute = "query" /\ hSafe = "false" /\ hStatus = 400 /\ hSqlOut = Str(hSafeArg)

\* The request in flight lacks the input its endpoint requires.
MissingInput ==
  \/ hRoute = "query" /\ Falsy(hPrompt)
  \/ hRoute = "ask" /\ Falsy(hBody.question)
  \/ hRoute = "analyze" /\ (Falsy(hBody.question) \/ hBody.dataKind = "missing")
  \/ hRoute = "analyze-text" /\ Falsy(hBody.text)
  \/ hRoute = "analyze-batch"
       /\ (~hBody.isArray \/ hBody.n = 0 \/ hBody.n > 5)

\* C10: a request that lacks its input is answered with a 400 and neither
\* a language-model call nor a database call is made for it.
C10_MissingInputRejected ==
  MissingInput => hStatus = 400 /\ hCalls = << >> /\ hPc = "done"

\* A batch of more than five items was rejected.
C10_Witness ==
  /\ hRoute = "analyze-batch" /\ hBody.isArray /\ hBody.n > 5
  /\ hStatus = 400 /\ hCalls = << >>

(***************************************************************************)
(* Properties of the validators (checked under SpecText)                   *)
(***************************************************************************)
\* The forbidden keywords as the specification lists them.
ForbiddenKeywords ==
  {"insert", "update", "delete", "drop", "alter", "create", "truncate",
   "exec", "merge", "grant", "revoke"}

\* The candidate text after trimming and lowercasing.
LoweredInput == toLowerCase(trim(tInput.v))

StartsWithSelectOrWith ==
  startsWith(LoweredInput, "select") \/ startsWith(LoweredInput, "with")

OneTrailingSemicolon ==
  countChar(LoweredInput, ";") = 1 /\ CharAt(LoweredInput, Len(LoweredInput)) = ";"

\* C2: isSafeSelect returns false for every candidate text that contains a
\* forbidden keyword as a whole word, in any letter case, whatever character
\* follows the keyword and whatever valid SQL surrounds it.
C2_ForbiddenWordRejected ==
  (tPhase = "checked" /\ tInput.t = "string"
     /\ \E kw \in ForbiddenKeywords : testWord(tInput.v, kw))
  => tSafe = FALSE

\* C3: isSafeSelect returns true only for text that, trimmed and lowercased,
\* starts with select or with and has no semicolon or exactly one semicolon
\* as its last character; and a text that starts so, holds no forbidden
\* keyword and has one trailing semicolon is accepted.
C3_SingleStatementOnly ==
  tPhase = "checked" =>
    /\ tSafe = TRUE =>
          /\ tInput.t = "string"
          /\ StartsWithSelectOrWith
          /\ countChar(LoweredInput, ";") = 0 \/ OneTrailingSemicolon
    /\ ( /\ tInput.t = "string"
         /\ StartsWithSelectOrWith
         /\ OneTrailingSemicolon
         /\ \A kw \in ForbiddenKeywords : ~includes(LoweredInput, kw) )
       => tSafe = TRUE

\* An accepted SELECT that ends with its single semicolon.
C3_Witness ==
  tPhase = "checked" /\ tSafe = TRUE /\ tInput.t = "string" /\ OneTrailingSemicolon

\* C4: every string returned by validateAndCleanSql is accepted by
\* isSafeSelect: one statement, SELECT or WITH first, no forbidden keyword.
C4_CleanedIsSafe == tPhase = "recleaned" => tCleanSafe = TRUE

\* C5: validateAndCleanSql applied to its own output returns that output.
C5_Idempotent == tPhase = "recleaned" => tClean2 = tClean

\* A fenced candidate whose cleaned statement was validated a second time.
C5_Witness ==
  /\ tPhase = "recleaned" /\ tInput.t = "string"
  /\ includes(tInput.v, Fence) /\ tClean # FallbackSql /\ tClean2 = tClean

\* C6: a statement that validateAndCleanSql returns unchanged is returned
\* again when it is wrapped in a code fence, whatever the wrapper style.
C6_FenceStripped == tPhase = "fenced" => tFenced = tClean
(***************************************************************************)
(* /analyze-batch: per-item isolation                                      *)
(***************************************************************************)
\* The batch was accepted: an array of 1..MaxBatch items.
BatchAccepted == hRoute = "analyze-batch" /\ hItems \in 1..MaxBatch

\* C11: in an accepted batch of n items the results are pushed one per item
\* in request order (entry i carries index i - 1, and a call is awaited only
\* for the item after the last pushed result), a failed item never ends the
\* batch, and the response is 200 with exactly n entries and
\* total = n = completed + failed.
C11_BatchIsolatesFailures ==
  BatchAccepted =>
    /\ Len(hResults) = hIndex /\ hIndex <= hItems
    /\ \A i \in DOMAIN hResults : hResults[i].index = i - 1
    /\ hPc \in {"batch_item", "batch_llm", "done"}
    /\ hPc = "batch_llm" => hIndex < hItems
    /\ hPc = "done" =>
         /\ hStatus = 200
         /\ Len(hResults) = hItems
         /\ hSummary.total = hItems
         /\ hSummary.completed + hSummary.failed = hItems
         /\ hSummary.failed =
              Cardinality({i \in DOMAIN hResults : ~hResults[i].success})

\* A finished batch of three items whose first item's call failed and whose
\* later items were still processed, the last one successfully.
C11_Witness ==
  /\ BatchAccepted /\ hPc = "done" /\ hItems = 3
  /\ Len(hCalls) = 3
  /\ ~hResults[1].success /\ hResults[3].success
  /\ hSummary = [total |-> 3, completed |-> 2, failed |-> 1]

(***************************************************************************)
(* /query: one model call, one statement, no retry                         *)
(***************************************************************************)
CallsOfKind(kind) == {i \in DOMAIN hCalls : hCalls[i].kind = kind}

\* The error texts String(err) of the catch block of /query.
QueryFailureTexts ==
  {"Error: GROQ_API_KEY not set in .env", "Error: chat completion failed",
   "Error: connection failed", "Error: query failed"}

\* C12: a /query request sends at most one chat-completion request and at
\* most one statement, the chat-completion request first; a failed model or
\* database call ends the request with 500 and the error text, the failed
\* call being the last call of the request, and a failed model call leaves
\* the database untouched.
C12_SingleCallNoRetry ==
  hRoute = "query" =>
    /\ Cardinality(CallsOfKind("llm")) <= 1
    /\ Cardinality(CallsOfKind("db_connect")) <= 1
    /\ Cardinality(CallsOfKind("db_query")) <= 1
    /\ \A j \in DOMAIN hCalls :
         /\ hCalls[j].kind = "db_connect" => j = 2 /\ hCalls[1].kind = "llm"
         /\ hCalls[j].kind = "db_query" => j = 3 /\ hCalls[2].kind = "db_connect"
         /\ hCalls[j].kind = "llm" => j = 1
    /\ hError \in QueryFailureTexts => hStatus = 500 /\ hPc = "done"
    /\ hError = "Error: chat completion failed" =>
         Len(hCalls) = 1 /\ hCalls[1].kind = "llm"
    /\ hError = "Error: connection failed" =>
         Len(hCalls) = 2 /\ hCalls[2].kind = "db_connect"
    /\ hError = "Error: query failed" =>
         Len(hCalls) = 3 /\ hCalls[3].kind = "db_query"
    /\ hPc = "done" /\ hStatus = 200 => Len(hCalls) = 3

\* A request whose statement failed in the database: 500 after one model
\* call, one connection and one statement.
C12_Witness ==
  /\ hRoute = "query" /\ hPc = "done" /\ hStatus = 500
  /\ hError = "Error: query failed"
  /\ Len(hCalls) = 3 /\ hCalls[1].kind = "llm" /\ hCalls[3].kind = "db_query"

(***************************************************************************)
(* /query: the visualization of the response                               *)
(***************************************************************************)
\* A /query request answered with rows.
QueryAnswered == hRoute = "query" /\ hPc = "done" /\ hStatus = 200

\* The positions in chartTypes of the patterns matching the prompt.
MatchingPatterns ==
  {k \in DOMAIN chartTypes : chartPatternTest(chartTypes[k], hPrompt.v)}

\* C13: the visualization of an answered /query request is the type of the
\* first pattern of the list (bar, line, pie, table) matching the prompt
\* when one matches, whatever the rows; with no match and no row it is the
\* empty default; only with no match and at least one row does it come from
\* the column heuristic.
C13_ExplicitChartWins ==
  QueryAnswered =>
    /\ MatchingPatterns # {} =>
         \E k \in MatchingPatterns :
           /\ \A m \in MatchingPatterns : k <= m
           /\ hViz = chartTypes[k]
    /\ MatchingPatterns = {} /\ hRows = << >> => hViz = ""
    /\ MatchingPatterns = {} /\ hRows # << >> => hViz \in {"line", "bar", "table"}

\* A prompt naming a table and a bar graph, answered with a month column
\* and a numeric column: the bar pattern comes first in the list and wins
\* over both the table pattern and the heuristic.
C13_Witness ==
  /\ QueryAnswered /\ hPrompt = Str("deals in a table as bar graph")
  /\ Len(hRows) > 0 /\ hRows[1][1].name = "MONTH_REPORTED"
  /\ hViz = "bar"

\* The columns of the first row of the answer whose name is date-like, and
\* those whose value is a number or a text of digits with an optional
\* fraction.
DateLikeColumns ==
  {c \in DOMAIN hRows[1] :
     \E w \in {"date", "month", "year", "time"} :
       includes(toLowerCase(hRows[1][c].name), w)}

NumericLookingColumns ==
  {c \in DOMAIN hRows[1] :
     \/ hRows[1][c].value.t = "number"
     \/ isNumericString(hRows[1][c].value.v)}

\* C14: with no chart pattern matching the prompt and at least one row, the
\* visualization follows from the first row alone: a date-like column name
\* and a numeric-looking column give line; otherwise a numeric-looking
\* column and at most three columns give bar; otherwise table.  The columns
\* MONTH_REPORTED and TotalGross with a numeric TotalGross give line.
C14_HeuristicOnFirstRow ==
  QueryAnswered /\ MatchingPatterns = {} /\ hRows # << >> =>
    /\ hViz = IF DateLikeColumns # {} /\ NumericLookingColumns # {} THEN "line"
              ELSE IF NumericLookingColumns # {} /\ Len(hRows[1]) <= 3 THEN "bar"
              ELSE "table"
    /\ ( /\ Len(hRows[1]) = 2
         /\ hRows[1][1].name = "MONTH_REPORTED"
         /\ hRows[1][2].name = "TotalGross"
         /\ 2 \in NumericLookingColumns ) => hViz = "line"

\* The answer with columns MONTH_REPORTED and TotalGross to a prompt without
\* a chart phrase is shown as a line chart.
C14_Witness ==
  /\ QueryAnswered /\ hPrompt = Str("total gross by month")
  /\ Len(hRows) = 1 /\ hRows[1][1].name = "MONTH_REPORTED"
  /\ hRows[1][2].name = "TotalGross" /\ hRows[1][2].value.t = "number"
  /\ hViz = "line"

(***************************************************************************)
(* analyzeUserPrompt: the detected table                                   *)
(***************************************************************************)
Analyzed == pPhase = "analyzed"

\* The scores of the entries of TABLE_MAPPINGS for the prompt, in tenths: 3
\* for every synonym found in the lowercased prompt, 5 for every pattern
\* that matches.
TableScores ==
  LET promptLower == textOf(pPrompt)
  IN  [k \in DOMAIN TABLE_MAPPINGS |->
         tableConfidence(TABLE_MAPPINGS[k], promptLower)]

TableScore(k) == TableScores[k]

\* The first entry, in the order sales, inventory, rvac, with the highest
\* of the scores.
BestOf(scores) ==
  CHOOSE k \in DOMAIN scores :
    /\ \A m \in DOMAIN scores : scores[m] <= scores[k]
    /\ \A m \in 1..(k - 1) : scores[m] < scores[k]

BestEntry == BestOf(TableScores)

\* C15 as stated: the detected table is the highest-scoring entry, the
\* earlier-evaluated one on equal scores.
C15_HighestScoringEntry ==
  Analyzed => pAnalysis.table.key = TABLE_MAPPINGS[BestEntry].key

\* C15, amended: the detected table is the highest-scoring entry (the
\* earlier-evaluated one on equal scores) with its score as confidence when
\* that score is above the initial 0.5; otherwise it stays the sales table
\* at confidence 0.5, even when another entry scores higher than the sales
\* entry.
C15_TableDetection ==
  Analyzed =>
    LET scores == TableScores
        best == BestOf(scores)
    IN  IF scores[best] > DefaultConfidence
        THEN pAnalysis.table =
               [table |-> TABLE_MAPPINGS[best].table,
                confidence |-> scores[best],
                key |-> TABLE_MAPPINGS[best].key]
        ELSE pAnalysis.table = DefaultTable

\* The inventory and rvac entries both score 0.6 and the sales entry 0: the
\* inventory entry, evaluated first, is kept.
C15_Witness ==
  /\ Analyzed /\ pPrompt = "vehicles in stock warranty contract"
  /\ TableScore(2) = 6 /\ TableScore(3) = 6
  /\ pAnalysis.table.key = "inventory" /\ pAnalysis.table.confidence = 6

(***************************************************************************)
(* analyzeUserPrompt: the scenarios                                        *)
(***************************************************************************)
\* The fields of the time range object of the analysis.
TimeRangeFields == DOMAIN pAnalysis.timeRange

OctoberPrompt == "Show total gross by dealership for October 2025"

\* C16: for "Show total gross by dealership for October 2025" the analysis
\* has the sales table, a SUM aggregate on TOTAL_COST, group-by
\* DEALER_LOCATION and the month-and-year time range with month "october"
\* and year "2025".
C16_MonthThenYear ==
  (Analyzed /\ pPrompt = OctoberPrompt) =>
    /\ pAnalysis.table.table = "SalesReport_Form_Input"
    /\ \E i \in DOMAIN pAnalysis.aggregates :
         /\ pAnalysis.aggregates[i].function = "SUM"
         /\ pAnalysis.aggregates[i].column = "TOTAL_COST"
    /\ pAnalysis.presentation.groupBy = Str("DEALER_LOCATION")
    /\ {"month", "year"} \subseteq TimeRangeFields
    /\ pAnalysis.timeRange.month = "october"
    /\ pAnalysis.timeRange.year = "2025"

CountPrompt == "count deals this month"

\* The positions of the COUNT entries of the aggregate list.
CountEntries ==
  {i \in DOMAIN pAnalysis.aggregates :
     pAnalysis.aggregates[i].function = "COUNT"}

\* C17: for "count deals this month" the aggregate list has exactly one
\* COUNT entry, on column ID with alias "TotalDeals", and the time range is
\* the relative-month one with relative "this", whose condition compares
\* MONTH_REPORTED and YEAR_REPORTED with the current month and year.
C17_CountDealsThisMonth ==
  (Analyzed /\ pPrompt = CountPrompt) =>
    /\ Cardinality(CountEntries) = 1
    /\ \A i \in CountEntries :
         pAnalysis.aggregates[i] = Aggregate("ID", "COUNT", "TotalDeals")
    /\ "relative" \in TimeRangeFields
    /\ pAnalysis.timeRange.relative = "this"
    /\ pAnalysis.timeRange.sqlCondition =
         "MONTH_REPORTED = DATENAME(MONTH, GETDATE()) AND YEAR_REPORTED = YEAR(GETDATE())"

\* The prompt has been analysed and its aggregate list is the one COUNT
\* entry.
C17_Witness ==
  /\ Analyzed /\ pPrompt = CountPrompt
  /\ pAnalysis.aggregates = <<Aggregate("ID", "COUNT", "TotalDeals")>>
  /\ pAnalysis.timeRange.relative = "this"

\* C18: the specific rules are tried before the generic year rule: a
\* prompt with "Q1 2025" yields the quarter-and-year time range, one with
\* "January 9, 2026" the specific date '2026-01-09', one with "from January 1
\* to January 15 2026" the custom range, and none of them the bare-year one.
C18_SpecificBeforeYear ==
  Analyzed =>
    /\ pPrompt = "list Q1 2025" =>
         /\ "quarter" \in TimeRangeFields
         /\ pAnalysis.timeRange.quarter = "1"
    /\ pPrompt = "list January 9, 2026" =>
         /\ "date" \in TimeRangeFields
         /\ pAnalysis.timeRange.date = "2026-01-09"
    /\ pPrompt = "list from January 1 to January 15 2026" =>
         /\ {"start", "end"} \subseteq TimeRangeFields
         /\ pAnalysis.timeRange.start = "2026-01-01"
         /\ pAnalysis.timeRange.end = "2026-01-15"

(***************************************************************************)
(* The two validators compared                                             *)
(***************************************************************************)
\* C19: every candidate text that SQLGenerator.validateSqlSafety accepts is
\* accepted by isSafeSelect too.
C19_StrictImpliesBase == tPhase = "checked" => (tStrict => tSafe)

(***************************************************************************)
(* The age of the schema snapshots                                         *)
(***************************************************************************)
\* A step in which _getCachedSchema returns the snapshot held in memory: at
\* the start of generateSqlFromPrompt or at the schema check.
ReturnsFromMemory ==
  MemoryFresh /\ (gCalls' = gCalls + 1 \/ (gPc = "llm" /\ gSite' = 2))

\* A step in which _getCachedSchema returns the snapshot of the external
\* cache, which it stamps with the present time.
ReturnsFromRedis == gPc = "redis_get" /\ gFetchedAt' # gFetchedAt

\* C20: with a database configured, a snapshot _getCachedSchema returns
\* from a cache is not older than the TTL, counted from the moment it was
\* read from the database; past that, the call refreshes from the database
\* before it returns.
C20_SnapshotWithinTtl ==
  [][gDb =>
       /\ ReturnsFromMemory => now - gBorn <= schemaCacheTTL
       /\ ReturnsFromRedis => now - redisVal.born <= schemaCacheTTL]_vars

(***************************************************************************)
(* The schema check of generateSqlFromPrompt                               *)
(***************************************************************************)
\* The identifiers of a statement, upper-cased: every maximal run of
\* letters, digits and underscores that starts with a letter or an
\* underscore, whatever its length.
RECURSIVE IdentifiersOf(_)
IdentifiersOf(s) ==
  IF s = "" THEN {}
  ELSE IF IsIdentStart(CharAt(s, 1))
       THEN LET rest == skipWord(s)
            IN  {toUpperCase(SubSeq(s, 1, Len(s) - Len(rest)))}
                  \cup IdentifiersOf(rest)
       ELSE IF IsWordChar(CharAt(s, 1)) THEN IdentifiersOf(skipWord(s))
       ELSE IdentifiersOf(Tail(s))

\* generateSqlFromPrompt returned the statement of the model after a schema
\* check against a snapshot.
ReturnedCheckedStatement ==
  /\ gPc = "done" /\ gEnforce /\ gLlm = "returned"
  /\ gResult.kind = "resolved" /\ gResult.value # FallbackSql
  /\ ~gSchema.null

\* C21: with the schema check enabled and a snapshot at hand, the statement
\* of the model is returned only if each of its identifiers outside the
\* allow-list is a table or column name of the snapshot.
C21_OnlyKnownIdentifiers ==
  ReturnedCheckedStatement =>
    \A tk \in IdentifiersOf(gSqlText) :
      tk \in AllowedTokens \/ tk \in knownTokens(gSchema)

(***************************************************************************)
(* analyzeUserPrompt: the records of a concept                             *)
(***************************************************************************)
\* The filter records and the aggregate records the analysis holds for the
\* COLUMN_MAPPINGS entry k.
FilterRecordsOf(k) ==
  {i \in DOMAIN pAnalysis.filters :
     pAnalysis.filters[i].concept = COLUMN_MAPPINGS[k].key}

AggregateRecordsOf(k) ==
  {i \in DOMAIN pAnalysis.aggregates :
     /\ COLUMN_MAPPINGS[k].function # ""
     /\ pAnalysis.aggregates[i].alias = getAggregateAlias(COLUMN_MAPPINGS[k].key)}

\* C22: each COLUMN_MAPPINGS concept contributes at most one record to the
\* analysis of a prompt, a filter record or an aggregate record.
C22_OneRecordPerConcept ==
  Analyzed =>
    \A k \in DOMAIN COLUMN_MAPPINGS :
      Cardinality(FilterRecordsOf(k)) + Cardinality(AggregateRecordsOf(k)) <= 1

(***************************************************************************)
(* analyzeUserPrompt: the relative days                                    *)
(***************************************************************************)
DayBeforeYesterdayCondition ==
  "CAST(DATE_REPORTED AS DATE) = CAST(DATEADD(DAY, -2, GETDATE()) AS DATE)"

\* C23: a prompt with "day before yesterday" and no date phrase of an
\* earlier rule gets the time range whose condition compares the report
\* date with the current date minus 2 days.
C23_DayBeforeYesterday ==
  (Analyzed /\ pPrompt = "list day before yesterday") =>
    /\ pAnalysis.timeRange # Null
    /\ pAnalysis.timeRange.sqlCondition = DayBeforeYesterdayCondition

(***************************************************************************)
(* extractValueFromPrompt: the word after the keyword                      *)
(***************************************************************************)
\* C24: the value extractValueFromPrompt returns for a filter is never one
\* of the words "for", "in", "by", "with", "and", "the", "a", "an".
C24_ValueIsNoStopWord ==
  Analyzed =>
    \A i \in DOMAIN pAnalysis.filters :
      pAnalysis.filters[i].value.t = "string" =>
        toLowerCase(pAnalysis.filters[i].value.v) \notin StopWords

(***************************************************************************)
(* Step 7 of generateSqlFromPrompt                                         *)
(***************************************************************************)
\* C25: the statement generateSqlFromPrompt returns never ends with a
\* semicolon.
C25_NoTrailingSemicolon ==
  (gPc = "done" /\ gResult.kind = "resolved") => ~endsWith(gResult.value, ";")

(***************************************************************************)
(* The schema cache under concurrent callers                               *)
(***************************************************************************)
\* The snapshots a refresh can build: all the rows of one state of the
\* database.
CompleteSnapshots == {Snapshot(DbSchemas[i]) : i \in DOMAIN DbSchemas}

ReturnedSnapshot(r) == cGot[r].how \in {"memory", "redis", "db", "kept"}

\* C26: under any interleaving of concurrent lookups and refreshes, the
\* memory cache, when it holds something, holds a complete snapshot, the one
\* of the caller that assigned it last, together with a fetch time; every
\* snapshot a caller gets is complete and the fetch time is set when it
\* gets it.
C26_LastWriterWins ==
  /\ ~gSchema.null =>
       /\ gSchema \in CompleteSnapshots
       /\ gFetchedAt >= 0
       /\ cWriter \in Readers
       /\ gSchema = cLocal[cWriter].schema
  /\ \A r \in Readers :
       ReturnedSnapshot(r) =>
         /\ cGot[r].schema \in CompleteSnapshots
         /\ cGot[r].stamp >= 0

\* Two callers found the cache missing and each refreshed from the
\* database: there is no single flight; the second assignment stands.
C26_Witness ==
  /\ cGot[1].how = "db" /\ cGot[2].how = "db"
  /\ cGot[1].schema # cGot[2].schema
  /\ cWriter = 2 /\ gSchema = cGot[2].schema

\* Two refreshes are in flight at once.
TwoRefreshesInFlight ==
  \E r1, r2 \in Readers :
    r1 # r2 /\ cPc[r1] = "db_query" /\ cPc[r2] = "db_query"

(***************************************************************************)
(* A refresh that fails                                                    *)
(***************************************************************************)
\* The call of r ended with the error of a refresh that did not get its
\* rows: no dbConfig, a failed connect or a failed query.
RefreshFailed(r) ==
  cGot[r].how = "threw" /\ cGot[r].at \in {"no_db", "db_connect", "db_query"}

\* C30: the step in which a refresh fails leaves the memory snapshot and its
\* fetch time as they are, and the caller it fails for has not assigned the
\* memory cache and holds no open pool; the memory snapshot is non-null only
\* when its fetch time is set.
C30_FailedRefreshFrame ==
  /\ [](/\ ~gSchema.null => gFetchedAt >= 0
        /\ \A r \in Readers :
             RefreshFailed(r) => cWriter # r /\ ~cPool[r])
  /\ [][\A r \in Readers :
          (cGot[r].how = "none" /\ RefreshFailed(r)') =>
            /\ gSchema' = gSchema
            /\ gFetchedAt' = gFetchedAt
            /\ ~cPool'[r]]_vars

\* The query of a refresh failed, after its pool was opened, while memory
\* holds the snapshot another caller assigned.
C30_Witness ==
  \E r \in Readers :
    /\ cGot[r] = Threw("db_query")
    /\ ~cPool[r]
    /\ ~gSchema.null /\ gFetchedAt >= 0

(***************************************************************************)
(* isSafeSelect and identifiers that end with a forbidden keyword          *)
(***************************************************************************)
\* C27: isSafeSelect accepts every candidate text that starts with select or
\* with, has no semicolon or one trailing semicolon, and holds no forbidden
\* keyword as a whole word: a keyword inside a longer identifier does not
\* cause rejection.
C27_KeywordInsideIdentifier ==
  (/\ tPhase = "checked" /\ tInput.t = "string"
   /\ StartsWithSelectOrWith
   /\ countChar(LoweredInput, ";") = 0 \/ OneTrailingSemicolon
   /\ \A kw \in ForbiddenKeywords : ~testWord(tInput.v, kw))
  => tSafe = TRUE

(***************************************************************************)
(* The relative-month time range                                           *)
(***************************************************************************)
NextMonthCondition ==
  "MONTH_REPORTED = DATENAME(MONTH, DATEADD(MONTH, 1, GETDATE())) AND YEAR_REPORTED = YEAR(DATEADD(MONTH, 1, GETDATE()))"

\* C28: a prompt with "next month" and no date phrase of an earlier rule
\* gets the relative time range "next", whose condition is that of neither
\* the current nor the previous month: it compares MONTH_REPORTED and
\* YEAR_REPORTED with the current date plus one month.
C28_NextMonthOffset ==
  (Analyzed /\ pPrompt = "sold next month") =>
    /\ "relative" \in TimeRangeFields
    /\ pAnalysis.timeRange.relative = "next"
    /\ pAnalysis.timeRange.sqlCondition \notin {ThisMonthCondition, LastMonthCondition}
    /\ pAnalysis.timeRange.sqlCondition = NextMonthCondition

(***************************************************************************)
(* The detected table                                                      *)
(***************************************************************************)
\* C29: the detected table is one of the three physical tables with the key
\* of its TABLE_MAPPINGS entry and a confidence of at least 0.5; when the
\* only evidence is one synonym of the inventory or of the rvac entry the
\* result is the default sales table; and an entry other than sales is the
\* result only when its score is above 0.5 and above the score of sales.
C29_DetectedTable ==
  Analyzed =>
    LET scores == TableScores
        got == pAnalysis.table
    IN  /\ \E k \in DOMAIN TABLE_MAPPINGS :
             got.table = TABLE_MAPPINGS[k].table /\ got.key = TABLE_MAPPINGS[k].key
        /\ got.confidence >= DefaultConfidence
        /\ (\E k \in 2..3 :
              /\ scores[k] = SynonymWeight
              /\ \A m \in DOMAIN scores : m # k => scores[m] = 0)
           => got = DefaultTable
        /\ \A k \in 2..3 :
             got.key = TABLE_MAPPINGS[k].key =>
               /\ scores[k] > DefaultConfidence
               /\ scores[k] > scores[1]
               /\ got.confidence = scores[k]

\* A prompt whose only table evidence is the word inventory was analysed and
\* got the sales table at 0.5.
C29_Witness ==
  /\ Analyzed /\ pPrompt = "show inventory"
  /\ TableScores = <<0, SynonymWeight, 0>>
  /\ pAnalysis.table = DefaultTable

\* A prompt with evidence for sales was analysed to another table.
C29_OtherTable ==
  /\ Analyzed /\ pAnalysis.table.key = "rvac"
  /\ TableScores[1] > 0 /\ TableScores[3] > TableScores[1]

====
